---- MODULE Spec2Model ----
(***************************************************************************)
(* Model of the schedule/detail reconciliation script generate_html.py:    *)
(* the name index, find_best_match, parse_schedule_program and the         *)
(* unmatched-activities report.                                            *)
(*                                                                         *)
(* A Python str is a sequence of one-character strings.  A similarity      *)
(* score is an exact rational [n, d] in lowest terms (the library returns  *)
(* floats such as 66.66...; thresholds are integers).                      *)
(***************************************************************************)
EXTENDS Integers, Sequences, FiniteSets, TLC

VARIABLES
    activities,              \* activities_data['activities']: the catalog
    activity_names,          \* ordered title sequence
    activity_details_map,    \* title -> record
    pc,                      \* position of the script
    first_call,              \* the first find_best_match call made on the index
    last_call,               \* the most recent find_best_match call
    calls_made,              \* "none", "one" or "many" calls so far
    schedule,                \* the schedule's entries (names), all days flattened
    schedule_names,          \* set of names still to resolve
    matched_activity_titles, \* titles matched by at least one schedule name
    unmatched_activities,    \* the report
    program_text,            \* input of parse_schedule_program
    activity_title,          \* input of parse_schedule_program (None or a title)
    entries,                 \* rows returned by parse_schedule_program
    entry_src,               \* per row, the index of the line its location came from
    frames,                  \* per caller, the local variables of its find_best_match call
    activity_schedule,       \* details.get('schedule', {}) of the record being rendered
    html,                    \* the schedule blocks the renderer appended
    schedule_keys,           \* per schedule entry, the key of schedule it is stored under
    total_activities,        \* summary: number of schedule items
    matched_count,           \* summary: number of items matched with details
    match_rate,              \* summary: the printed match rate
    page,                    \* the activity containers of the scraped page
    activities_json,         \* the activities list in the activities JSON file
    activities_in,           \* details scraper: the activities to process
    loop_idx,                \* details scraper: idx, the position of the loop
    results,                 \* details scraper: records fetched so far
    output,                  \* details scraper: the saved output file
    fetch_log                \* per attempted fetch, what the network call did

renderVars == <<activity_schedule, html>>

summaryVars == <<schedule_keys, total_activities, matched_count, match_rate>>

scrapeVars == <<page, activities_json, activities_in, loop_idx, results, output, fetch_log>>

vars == <<activities, activity_names, activity_details_map, pc, first_call,
          last_call, calls_made, schedule, schedule_names, matched_activity_titles,
          unmatched_activities, program_text, activity_title, entries, entry_src, frames,
                   renderVars, summaryVars, scrapeVars>>

-----------------------------------------------------------------------------
(* Bounds *)

MaxCatalog == 2

MaxEntries == 2

MaxLines == 4

\* records in a catalog of the edge-case runs
MaxEdgeCatalog == 3

\* lines in a text of the longer parser runs
MaxLongLines == 5

-----------------------------------------------------------------------------
(* Python str primitives *)

\* the upper-case letters that occur in the model's strings
UpperChars ==
    <<"A", "B", "L", "P", "S", "D", "I", "M", "T",
      "U+00C2", "U+0102", "U+021A", "U+00C3", "U+00C4", "U+00C8">>

LowerChars ==
    <<"a", "b", "l", "p", "s", "d", "i", "m", "t",
      "U+00E2", "U+0103", "U+021B", "U+00E3", "U+00E4", "U+00E8">>

\* str.lower() on one character
LowerChar(c) ==
    IF \E i \in 1..Len(UpperChars) : UpperChars[i] = c
    THEN LowerChars[CHOOSE i \in 1..Len(UpperChars) : UpperChars[i] = c]
    ELSE c

lower(s) == [i \in 1..Len(s) |-> LowerChar(s[i])]

\* Python `a in b` on strings
IsSubstring(a, b) ==
    \E i \in 0..(Len(b) - Len(a)) : SubSeq(b, i + 1, i + Len(a)) = a

\* code point order of the characters that occur in tokens
CharCode(c) ==
    CASE c = " " -> 32
      [] c = "A" -> 65
      [] c = "B" -> 66
      [] c = "a" -> 97
      [] c = "b" -> 98
      [] OTHER -> 127

RECURSIVE StrLess(_, _)
\* Python `a < b` on strings
StrLess(a, b) ==
    IF b = <<>> THEN FALSE
    ELSE IF a = <<>> THEN TRUE
    ELSE IF CharCode(Head(a)) # CharCode(Head(b))
         THEN CharCode(Head(a)) < CharCode(Head(b))
         ELSE StrLess(Tail(a), Tail(b))

IsSpace(c) == c \in {" ", "\t", "\r"}

RECURSIVE SplitAcc(_, _, _)
SplitAcc(s, cur, acc) ==
    IF s = <<>> THEN (IF cur = <<>> THEN acc ELSE Append(acc, cur))
    ELSE IF IsSpace(Head(s))
         THEN SplitAcc(Tail(s), <<>>, IF cur = <<>> THEN acc ELSE Append(acc, cur))
         ELSE SplitAcc(Tail(s), Append(cur, Head(s)), acc)

\* str.split(): the whitespace-separated tokens, in order
split(s) == SplitAcc(s, <<>>, <<>>)

RECURSIVE SortedSet(_)
\* sorted(S) for a set of strings
SortedSet(S) ==
    IF S = {} THEN <<>>
    ELSE LET m == CHOOSE x \in S : \A y \in S : y = x \/ StrLess(x, y)
         IN  <<m>> \o SortedSet(S \ {m})

RECURSIVE InsertSorted(_, _)
InsertSorted(sq, x) ==
    IF sq = <<>> THEN <<x>>
    ELSE IF StrLess(x, Head(sq)) THEN <<x>> \o sq
         ELSE <<Head(sq)>> \o InsertSorted(Tail(sq), x)

RECURSIVE SortedSeq(_)
\* sorted(list) for a list of strings (duplicates kept)
SortedSeq(sq) ==
    IF sq = <<>> THEN <<>> ELSE InsertSorted(SortedSeq(Tail(sq)), Head(sq))

RECURSIVE JoinSpace(_)
\* " ".join(list)
JoinSpace(sq) ==
    IF sq = <<>> THEN <<>>
    ELSE IF Len(sq) = 1 THEN sq[1]
         ELSE sq[1] \o <<" ">> \o JoinSpace(Tail(sq))

Max2(a, b) == IF a >= b THEN a ELSE b

-----------------------------------------------------------------------------
(* Scores: exact rationals *)

RECURSIVE GCD(_, _)
GCD(a, b) == IF b = 0 THEN a ELSE GCD(b, a % b)

Frac(n, d) == LET g == GCD(n, d) IN [n |-> n \div g, d |-> d \div g]

Score(k) == [n |-> k, d |-> 1]

ScoreGeq(a, b) == a.n * b.d >= b.n * a.d

ScoreGt(a, b) == a.n * b.d > b.n * a.d

ScoreMax(a, b) == IF ScoreGeq(a, b) THEN a ELSE b

\* mutant: the comparison with the threshold is inverted
MeetsThreshold_Inverted(s, threshold) == s.n <= threshold * s.d

\* score >= threshold, threshold an integer
MeetsThreshold(s, threshold) == s.n >= threshold * s.d

-----------------------------------------------------------------------------
(* rapidfuzz.fuzz scorers (no processor: the strings are compared as given) *)

RECURSIVE LCSLen(_, _)
\* length of a longest common subsequence
LCSLen(s, t) ==
    IF s = <<>> \/ t = <<>> THEN 0
    ELSE IF Head(s) = Head(t) THEN 1 + LCSLen(Tail(s), Tail(t))
         ELSE Max2(LCSLen(Tail(s), t), LCSLen(s, Tail(t)))

\* Indel distance: insertions and deletions turning s into t
IndelDistance(s, t) == Len(s) + Len(t) - 2 * LCSLen(s, t)

\* 100 - 100 * dist / lensum, 100 when lensum = 0
NormDistance(dist, lensum) ==
    IF lensum = 0 THEN Score(100) ELSE Frac(100 * (lensum - dist), lensum)

\* fuzz.ratio: normalized Indel similarity, 0..100
ratio(s1, s2) == NormDistance(IndelDistance(s1, s2), Len(s1) + Len(s2))

Range(sq) == {sq[i] : i \in 1..Len(sq)}

\* the windows of `longer` that partial_ratio aligns `shorter` with:
\* prefixes shorter than the needle, every full-length window, and the
\* suffixes; a window whose boundary character does not occur in the needle
\* is skipped
PartialWindows(shorter, longer) ==
    LET l1 == Len(shorter)
        l2 == Len(longer)
        chars == Range(shorter)
    IN  {SubSeq(longer, 1, i) : i \in {j \in 1..(l1 - 1) : longer[j] \in chars}}
          \cup {SubSeq(longer, i + 1, i + l1) :
                   i \in {j \in 0..(l2 - l1 - 1) : longer[j + l1] \in chars}}
          \cup {SubSeq(longer, i + 1, l2) :
                   i \in {j \in (l2 - l1)..(l2 - 1) : longer[j + 1] \in chars}}

RECURSIVE BestOf(_)
BestOf(S) ==
    IF S = {} THEN Score(0)
    ELSE LET x == CHOOSE y \in S : TRUE IN ScoreMax(x, BestOf(S \ {x}))

PartialRatioImpl(shorter, longer) ==
    BestOf({ratio(shorter, w) : w \in PartialWindows(shorter, longer)})

\* fuzz.partial_ratio: best ratio of the shorter string against a window of
\* the longer one; equal lengths are tried both ways
partial_ratio(s1, s2) ==
    IF s1 = <<>> /\ s2 = <<>> THEN Score(100)
    ELSE IF s1 = <<>> \/ s2 = <<>> THEN Score(0)
    ELSE LET shorter == IF Len(s1) <= Len(s2) THEN s1 ELSE s2
             longer  == IF Len(s1) <= Len(s2) THEN s2 ELSE s1
             res     == PartialRatioImpl(shorter, longer)
         IN  IF res # Score(100) /\ Len(s1) = Len(s2)
             THEN ScoreMax(res, PartialRatioImpl(longer, shorter))
             ELSE res

\* fuzz.token_sort_ratio: ratio of the strings with their tokens sorted
token_sort_ratio(s1, s2) ==
    ratio(JoinSpace(SortedSeq(split(s1))), JoinSpace(SortedSeq(split(s2))))

\* fuzz.token_set_ratio
token_set_ratio(s1, s2) ==
    LET tokens_a == Range(split(s1))
        tokens_b == Range(split(s2))
        intersect == tokens_a \cap tokens_b
        diff_ab == tokens_a \ tokens_b
        diff_ba == tokens_b \ tokens_a
        diff_ab_joined == JoinSpace(SortedSet(diff_ab))
        diff_ba_joined == JoinSpace(SortedSet(diff_ba))
        ab_len == Len(diff_ab_joined)
        ba_len == Len(diff_ba_joined)
        sect_len == Len(JoinSpace(SortedSet(intersect)))
        sep == IF sect_len # 0 THEN 1 ELSE 0
        sect_ab_len == sect_len + sep + ab_len
        sect_ba_len == sect_len + sep + ba_len
        result == NormDistance(IndelDistance(diff_ab_joined, diff_ba_joined),
                               sect_ab_len + sect_ba_len)
        sect_ab_ratio == NormDistance(sep + ab_len, sect_len + sect_ab_len)
        sect_ba_ratio == NormDistance(sep + ba_len, sect_len + sect_ba_len)
    IN  IF tokens_a = {} \/ tokens_b = {} THEN Score(0)
        ELSE IF intersect # {} /\ (diff_ab = {} \/ diff_ba = {}) THEN Score(100)
        ELSE IF sect_len = 0 THEN result
        ELSE ScoreMax(result, ScoreMax(sect_ab_ratio, sect_ba_ratio))

-----------------------------------------------------------------------------
(* Inputs *)

TitlePool ==
    { <<>>, <<"a","b">>, <<"A","B">>, <<"a","b","b">>, <<"A","b","b">>,
      <<"A"," ","b">>, <<"b"," ","a">>, <<"b"," ","b"," ","a">> }

QueryPool == { <<>>, <<"a","b">>, <<"A","b">>, <<"a"," ","b">> }

Thresholds == {1, 60, 100}

\* find_best_match's default threshold
DefaultThreshold == 60

\* titles and schedule names of the report runs
ReportTitlePool == { <<"a","b">>, <<"A","B">>, <<"a","b","b">> }

SchedulePool == { <<"a","b">>, <<"A","B">>, <<"a","b","b">>, <<"A","b">> }

\* inputs at the edges of the domain: empty text, a title that shares no
\* character with the query, titles repeated in the catalog (as written and
\* in another letter case), the thresholds 0 and 100 and one above 100
EdgeTitlePool == { <<>>, <<"a","b">>, <<"A","B">>, <<"S">> }

EdgeQueryPool == { <<>>, <<"a","b">> }

EdgeThresholds == {0, 1, 100, 101}

NamePool ==
    TitlePool \cup QueryPool \cup ReportTitlePool \cup SchedulePool
        \cup EdgeTitlePool \cup EdgeQueryPool

\* catalogs: up to MaxCatalog records, each with a title; uid stands for the
\* rest of the record (description, url, ...) and is its catalog position
Catalogs ==
    UNION { [1..k -> TitlePool] : k \in 0..MaxCatalog }

EdgeCatalogs ==
    UNION { [1..k -> EdgeTitlePool] : k \in 0..MaxEdgeCatalog }

ReportCatalogs ==
    UNION { [1..k -> ReportTitlePool] : k \in 0..MaxCatalog }

Schedules ==
    UNION { [1..k -> SchedulePool] : k \in 0..MaxEntries }

Record(catalog, i) == [title |-> catalog[i], uid |-> i]

None == [title |-> <<>>, uid |-> 0]

-----------------------------------------------------------------------------
(* Name index: lines 22-27 *)

\* mutant: the mapping keeps the first record of a title (dict.setdefault)
IndexAdd_KeepsFirst(names, map, activity) ==
    [names |-> Append(names, activity.title),
     map   |-> [t \in DOMAIN map \cup {activity.title} |->
                   IF t \in DOMAIN map THEN map[t] ELSE activity]]

\* one iteration of the loop that builds activity_names and activity_details_map
IndexAdd(names, map, activity) ==
    [names |-> Append(names, activity.title),
     map   |-> [t \in DOMAIN map \cup {activity.title} |->
                   IF t = activity.title THEN activity ELSE map[t]]]

\* dict.get(key): None when the key is absent
MapGet(map, name) == IF name \in DOMAIN map THEN map[name] ELSE None

-----------------------------------------------------------------------------
(* find_best_match: lines 29-67 *)

Scorers == <<"ratio", "partial_ratio", "token_sort_ratio", "token_set_ratio">>

FuzzScore(id, s1, s2) ==
    CASE id = "ratio"            -> ratio(s1, s2)
      [] id = "partial_ratio"    -> partial_ratio(s1, s2)
      [] id = "token_sort_ratio" -> token_sort_ratio(s1, s2)
      [] id = "token_set_ratio"  -> token_set_ratio(s1, s2)

\* the scorers' values on the strings of the model, computed once
FuzzTable ==
    [a \in Range(Scorers) \X NamePool \X NamePool |->
        FuzzScore(a[1], a[2], a[3])] @@ <<>>

Scorer(id, s1, s2) == FuzzTable[<<id, s1, s2>>]

\* mutant: the exact stage compares the strings as written
ExactHits_CaseSensitive(schedule_name, names) ==
    {i \in 1..Len(names) : schedule_name = names[i]}

\* lines 31-34: first name equal to the query, case-folded
ExactHits(schedule_name, names) ==
    {i \in 1..Len(names) : lower(schedule_name) = lower(names[i])}

\* line 40: the query contains the name or the name contains the query
Contains(schedule_name, activity_name) ==
    \/ IsSubstring(lower(schedule_name), lower(activity_name))
    \/ IsSubstring(lower(activity_name), lower(schedule_name))

\* lines 42-46
ContainmentScore(schedule_name, activity_name) ==
    ScoreMax(Scorer("ratio", schedule_name, activity_name),
             ScoreMax(Scorer("partial_ratio", schedule_name, activity_name),
                      Scorer("token_sort_ratio", schedule_name, activity_name)))

\* mutant: the containment stage keeps only its highest-scoring candidates
ContainmentHits_BestOnly(schedule_name, threshold, names) ==
    LET hits == {i \in 1..Len(names) :
                    /\ Contains(schedule_name, names[i])
                    /\ MeetsThreshold(ContainmentScore(schedule_name, names[i]),
                                      threshold)}
    IN  {i \in hits : \A j \in hits :
            ScoreGeq(ContainmentScore(schedule_name, names[i]),
                     ContainmentScore(schedule_name, names[j]))}

\* mutant: the containment scan gives up when its first containing candidate
\* is below the threshold
ContainmentHits_OnlyFirstContaining(schedule_name, threshold, names) ==
    LET containing == {i \in 1..Len(names) : Contains(schedule_name, names[i])}
    IN  {i \in containing :
            /\ \A j \in containing : i <= j
            /\ MeetsThreshold(ContainmentScore(schedule_name, names[i]), threshold)}

\* mutant: the containment stage returns its candidates whatever they score
ContainmentHits_IgnoresThreshold(schedule_name, threshold, names) ==
    {i \in 1..Len(names) : Contains(schedule_name, names[i])}

\* lines 38-48: names that make the containment loop return
ContainmentHits(schedule_name, threshold, names) ==
    {i \in 1..Len(names) :
        /\ Contains(schedule_name, names[i])
        /\ MeetsThreshold(ContainmentScore(schedule_name, names[i]), threshold)}

MinOf(S) == CHOOSE x \in S : \A y \in S : x <= y

NoResult == [found |-> FALSE, name |-> <<>>, score |-> Score(0)]

RECURSIVE ExtractLoop_FirstAboveCutoff(_, _, _, _, _)
\* mutant: the loop stops at the first choice at or above score_cutoff
ExtractLoop_FirstAboveCutoff(query, choices, id, score_cutoff, best) ==
    IF choices = <<>> THEN best
    ELSE IF MeetsThreshold(Scorer(id, query, Head(choices)), score_cutoff)
         THEN [found |-> TRUE, name |-> Head(choices),
               score |-> Scorer(id, query, Head(choices))]
         ELSE ExtractLoop_FirstAboveCutoff(query, Tail(choices), id, score_cutoff, best)

RECURSIVE ExtractLoop(_, _, _, _, _)
\* process.extractOne's loop: the first choice with the highest score that is
\* at or above score_cutoff
ExtractLoop(query, choices, id, score_cutoff, best) ==
    IF choices = <<>> THEN best
    ELSE LET score == Scorer(id, query, Head(choices))
             take  == /\ MeetsThreshold(score, score_cutoff)
                      /\ (~best.found \/ ScoreGt(score, best.score))
         IN  ExtractLoop(query, Tail(choices), id, score_cutoff,
                         IF take
                         THEN [found |-> TRUE, name |-> Head(choices), score |-> score]
                         ELSE best)

RECURSIVE LastAboveCutoff(_, _, _, _, _)
LastAboveCutoff(query, choices, id, score_cutoff, best) ==
    IF choices = <<>> THEN best
    ELSE LastAboveCutoff(query, Tail(choices), id, score_cutoff,
             IF MeetsThreshold(Scorer(id, query, Head(choices)), score_cutoff)
             THEN [found |-> TRUE, name |-> Head(choices),
                   score |-> Scorer(id, query, Head(choices))]
             ELSE best)

\* mutant: the last choice at or above score_cutoff is returned, best or not
extractOne_LastAboveCutoff(query, choices, id, score_cutoff) ==
    LastAboveCutoff(query, choices, id, score_cutoff, NoResult)

\* process.extractOne(query, choices, scorer=, score_cutoff=)
extractOne(query, choices, id, score_cutoff) ==
    ExtractLoop(query, choices, id, score_cutoff, NoResult)

RECURSIVE BestEffortLoop_FirstScorerWins(_, _, _, _, _, _)
\* mutant: the loop over the scorers stops at the first scorer with a result
BestEffortLoop_FirstScorerWins(k, schedule_name, threshold, names, map, best) ==
    IF k > Len(Scorers) THEN best
    ELSE LET result == extractOne(schedule_name, names, Scorers[k], threshold)
         IN  IF result.found
             THEN [rec |-> MapGet(map, result.name), score |-> result.score,
                   stage |-> "best_effort"]
             ELSE BestEffortLoop_FirstScorerWins(k + 1, schedule_name, threshold,
                                                 names, map, best)

RECURSIVE BestEffortLoop_LaterWinsTies(_, _, _, _, _, _)
\* mutant: the running best is replaced on a greater or equal score
BestEffortLoop_LaterWinsTies(k, schedule_name, threshold, names, map, best) ==
    IF k > Len(Scorers) THEN best
    ELSE LET result == extractOne(schedule_name, names, Scorers[k], threshold)
         IN  BestEffortLoop_LaterWinsTies(k + 1, schedule_name, threshold, names, map,
                 IF result.found /\ ScoreGeq(result.score, best.score)
                 THEN [rec |-> MapGet(map, result.name), score |-> result.score,
                       stage |-> "best_effort"]
                 ELSE best)

RECURSIVE BestEffortLoop(_, _, _, _, _, _)
\* lines 51-67: the loop over the four scorers
BestEffortLoop(k, schedule_name, threshold, names, map, best) ==
    IF k > Len(Scorers) THEN best
    ELSE LET result == extractOne(schedule_name, names, Scorers[k], threshold)
         IN  BestEffortLoop(k + 1, schedule_name, threshold, names, map,
                 IF result.found /\ ScoreGt(result.score, best.score)
                 THEN [rec |-> MapGet(map, result.name), score |-> result.score,
                       stage |-> "best_effort"]
                 ELSE best)

\* mutant: the containment scan runs before the exact scan
find_best_match_ContainmentFirst(schedule_name, threshold, names, map) ==
    LET exact == ExactHits(schedule_name, names)
        cont  == ContainmentHits(schedule_name, threshold, names)
    IN  IF cont # {}
        THEN [rec |-> MapGet(map, names[MinOf(cont)]),
              score |-> ContainmentScore(schedule_name, names[MinOf(cont)]),
              stage |-> "containment"]
        ELSE IF exact # {}
        THEN [rec |-> MapGet(map, names[MinOf(exact)]), score |-> Score(100),
              stage |-> "exact"]
        ELSE BestEffortLoop(1, schedule_name, threshold, names, map,
                 [rec |-> None, score |-> Score(0), stage |-> "best_effort"])

\* mutant: a containment hit does not return at once; the best-effort result
\* replaces it when it scores higher
find_best_match_HighestWins(schedule_name, threshold, names, map) ==
    LET exact == ExactHits(schedule_name, names)
        cont  == ContainmentHits(schedule_name, threshold, names)
        fuzzy == BestEffortLoop(1, schedule_name, threshold, names, map,
                     [rec |-> None, score |-> Score(0), stage |-> "best_effort"])
    IN  IF exact # {}
        THEN [rec |-> MapGet(map, names[MinOf(exact)]), score |-> Score(100),
              stage |-> "exact"]
        ELSE IF cont # {} /\ ~ScoreGt(fuzzy.score,
                                      ContainmentScore(schedule_name, names[MinOf(cont)]))
        THEN [rec |-> MapGet(map, names[MinOf(cont)]),
              score |-> ContainmentScore(schedule_name, names[MinOf(cont)]),
              stage |-> "containment"]
        ELSE fuzzy

\* find_best_match(schedule_name, threshold) on the index (names, map); the
\* stage field records which return statement produced the result
find_best_match(schedule_name, threshold, names, map) ==
    LET exact == ExactHits(schedule_name, names)
        cont  == ContainmentHits(schedule_name, threshold, names)
    IN  IF exact # {}
        THEN [rec |-> MapGet(map, names[MinOf(exact)]), score |-> Score(100),
              stage |-> "exact"]
        ELSE IF cont # {}
        THEN [rec |-> MapGet(map, names[MinOf(cont)]),
              score |-> ContainmentScore(schedule_name, names[MinOf(cont)]),
              stage |-> "containment"]
        ELSE BestEffortLoop(1, schedule_name, threshold, names, map,
                 [rec |-> None, score |-> Score(0), stage |-> "best_effort"])

-----------------------------------------------------------------------------
(* The script as a state machine *)

NoCall == [q |-> <<>>, t |-> -1, rec |-> None, score |-> Score(0), stage |-> "nocall"]

Call(q, t, r) == [q |-> q, t |-> t, rec |-> r.rec, score |-> r.score, stage |-> r.stage]

EmptyMap == [t \in {} |-> None]

\* the callers that may run find_best_match at the same time
Threads == {"t1", "t2"}

\* the local variables of a find_best_match call: its arguments, the loop it
\* is in (pc) and the loop's position (i), best_match and best_score, and the
\* returned pair (rec, score) once it is done
Frame(at, q, t, i, best_match, best_score, rec, score) ==
    [pc |-> at, q |-> q, t |-> t, i |-> i, best_match |-> best_match,
     best_score |-> best_score, rec |-> rec, score |-> score]

IdleFrame == Frame("idle", <<>>, -1, 0, None, Score(0), None, Score(0))

\* the generator's state once the input files are read
InitCore(catalog, sched) ==
    /\ activities = [i \in 1..Len(catalog) |-> Record(catalog, i)]
    /\ activity_names = <<>>
    /\ activity_details_map = EmptyMap
    /\ pc = IF catalog = <<>> THEN "ready" ELSE "index"
    /\ first_call = NoCall
    /\ last_call = NoCall
    /\ calls_made = "none"
    /\ schedule = sched
    /\ schedule_names = {}
    /\ matched_activity_titles = {}
    /\ unmatched_activities = <<>>
    /\ frames = [th \in Threads |-> IdleFrame]

\* line 369
days == <<"Monday", "Tuesday", "Wednesday", "Thursday", "Friday", "Saturday", "Sunday">>

\* the renderer has not run
RenderIdle ==
    /\ activity_schedule = <<>>
    /\ html = <<>>

\* the summary has not run; every entry of sched is stored under schedule['Monday']
SummaryIdle(sched) ==
    /\ schedule_keys = [i \in 1..Len(sched) |-> days[1]]
    /\ total_activities = 0
    /\ matched_count = 0
    /\ match_rate = "not printed"

\* the scrapers have not run
ScrapeIdle ==
    /\ page = <<>>
    /\ activities_json = <<>>
    /\ activities_in = <<>>
    /\ loop_idx = 0
    /\ results = <<>>
    /\ output = <<>>
    /\ fetch_log = <<>>

\* state shared by every specification once the input files are read
InitShared(catalog, sched) ==
    /\ InitCore(catalog, sched)
    /\ RenderIdle
    /\ SummaryIdle(sched)
    /\ ScrapeIdle

ParseIdle ==
    /\ program_text = <<>>
    /\ activity_title = {}
    /\ entries = <<>>
    /\ entry_src = <<>>

Init ==
    /\ \E catalog \in Catalogs : InitShared(catalog, <<>>)
    /\ ParseIdle

\* lines 25-27: one iteration of the index-building loop
LoadActivity ==
    /\ pc = "index"
    /\ LET k   == Len(activity_names) + 1
           idx == IndexAdd(activity_names, activity_details_map, activities[k])
       IN  /\ activity_names' = idx.names
           /\ activity_details_map' = idx.map
           /\ pc' = IF k = Len(activities) THEN "ready" ELSE "index"
    /\ UNCHANGED <<activities, first_call, last_call, calls_made, schedule, schedule_names,
                   matched_activity_titles, unmatched_activities, program_text,
                   activity_title, entries, entry_src, frames,
                   renderVars, summaryVars, scrapeVars>>

\* mutant: a matched name is moved to the front of activity_names
Resolve_MoveToFront ==
    /\ pc = "ready"
    /\ \E q \in QueryPool, t \in Thresholds :
          LET c == Call(q, t, find_best_match(q, t, activity_names, activity_details_map))
          IN  /\ last_call' = c
              /\ first_call' = IF calls_made = "none" THEN c ELSE first_call
              /\ calls_made' = IF calls_made = "none" THEN "one" ELSE "many"
              /\ activity_names' =
                    IF c.rec = None THEN activity_names
                    ELSE <<c.rec.title>> \o
                         SelectSeq(activity_names, LAMBDA n : n # c.rec.title)
    /\ UNCHANGED <<activities, activity_details_map, pc, schedule,
                   schedule_names, matched_activity_titles, unmatched_activities,
                   program_text, activity_title, entries, entry_src, frames,
                   renderVars, summaryVars, scrapeVars>>

\* a call find_best_match(q, t) on the built index
Resolve ==
    /\ pc = "ready"
    /\ \E q \in QueryPool, t \in Thresholds :
          LET c == Call(q, t, find_best_match(q, t, activity_names, activity_details_map))
          IN  /\ last_call' = c
              /\ first_call' = IF calls_made = "none" THEN c ELSE first_call
              /\ calls_made' = IF calls_made = "none" THEN "one" ELSE "many"
    /\ UNCHANGED <<activities, activity_names, activity_details_map, pc, schedule,
                   schedule_names, matched_activity_titles, unmatched_activities,
                   program_text, activity_title, entries, entry_src, frames,
                   renderVars, summaryVars, scrapeVars>>

Next == LoadActivity \/ Resolve

Spec == Init /\ [][Next]_vars

-----------------------------------------------------------------------------
(* Properties of find_best_match, checked under Spec *)

Called == calls_made # "none"

\* the positions of the names equal to q up to letter case
CaseFoldEqual(q) == {i \in 1..Len(activity_names) : lower(activity_names[i]) = lower(q)}

\* the positions the containment scan accepts at threshold t
Qualifies(q, t) ==
    {i \in 1..Len(activity_names) :
        /\ \/ IsSubstring(lower(q), lower(activity_names[i]))
           \/ IsSubstring(lower(activity_names[i]), lower(q))
        /\ ContainmentScore(q, activity_names[i]).n
              >= t * ContainmentScore(q, activity_names[i]).d}

First(S) == CHOOSE i \in S : \A j \in S : i <= j

IsNoMatch(c) == c.rec = None /\ c.score = Score(0)

\* two recorded calls with the same query, the first at the lower threshold
CallPairs ==
    {p \in {<<first_call, last_call>>, <<last_call, first_call>>} :
        Called /\ p[1].q = p[2].q /\ p[1].t < p[2].t}

\* C1 as stated: a name present verbatim in the index resolves to the record
\* with that very title, with score 100.
C1_VerbatimReturnsOwnRecord ==
    (Called /\ last_call.q \in Range(activity_names))
        => (last_call.rec.title = last_call.q /\ last_call.score = Score(100))

\* C1 amended: a name present verbatim in the index resolves with score 100 to
\* the mapping's record of the first catalog name that equals it up to letter
\* case; that record has the queried title when no catalog title differs from
\* the query only by letter case.
C1_VerbatimReturnsFirstCaseFoldEqual ==
    (Called /\ last_call.q \in Range(activity_names))
        => LET hits == CaseFoldEqual(last_call.q)
           IN  /\ last_call.score = Score(100)
               /\ last_call.rec \in Range(activities)
               /\ last_call.rec.title = activity_names[First(hits)]
               /\ (\A i \in hits : activity_names[i] = last_call.q)
                     => last_call.rec.title = last_call.q

\* the verbatim name is found at the second position, after another name
C1_Witness ==
    /\ Called
    /\ Len(activity_names) = 2
    /\ activity_names[2] = last_call.q
    /\ activity_names[1] # last_call.q
    /\ last_call.rec.title = last_call.q

\* C2 as stated: of two candidates that contain the query and score at or
\* above the threshold, the earlier one's record is returned.
C2_EarlierContainingCandidateReturned ==
    Called =>
        \A i, j \in 1..Len(activity_names) :
            (/\ i < j
             /\ IsSubstring(lower(last_call.q), lower(activity_names[i]))
             /\ IsSubstring(lower(last_call.q), lower(activity_names[j]))
             /\ {i, j} \subseteq Qualifies(last_call.q, last_call.t))
                => last_call.rec = MapGet(activity_details_map, activity_names[i])

\* C2 amended: when no catalog name equals the query up to letter case and A
\* is the earliest candidate in a containment relation with the query that
\* scores at or above the threshold, the mapping's record for A is returned
\* with A's score, whatever later candidates score.
C2_FirstQualifyingCandidateReturned ==
    (Called /\ CaseFoldEqual(last_call.q) = {})
        => \A i \in Qualifies(last_call.q, last_call.t) :
              (\A k \in Qualifies(last_call.q, last_call.t) : i <= k)
                 => /\ last_call.rec = MapGet(activity_details_map, activity_names[i])
                    /\ last_call.score = ContainmentScore(last_call.q, activity_names[i])

\* A is returned although the later candidate B scores higher
C2_Witness ==
    /\ Called
    /\ CaseFoldEqual(last_call.q) = {}
    /\ Len(activity_names) = 2
    /\ Qualifies(last_call.q, last_call.t) = {1, 2}
    /\ IsSubstring(lower(last_call.q), lower(activity_names[1]))
    /\ IsSubstring(lower(last_call.q), lower(activity_names[2]))
    /\ ScoreGt(ContainmentScore(last_call.q, activity_names[2]),
               ContainmentScore(last_call.q, activity_names[1]))
    /\ last_call.rec.title = activity_names[1]

\* C3: the stages run in the order exact, containment, best-effort.  A name
\* equal to the query up to letter case makes the exact stage return (score
\* 100, first such name) wherever containment candidates stand; otherwise a
\* containment candidate at or above the threshold makes the containment stage
\* return the first such candidate with its containment score, whatever the
\* four scorers of the best-effort stage would find; otherwise the best-effort
\* stage decides.
C3_StagePriority ==
    Called =>
        LET exact == CaseFoldEqual(last_call.q)
            cont  == Qualifies(last_call.q, last_call.t)
        IN  /\ exact # {} =>
                 /\ last_call.stage = "exact"
                 /\ last_call.score = Score(100)
                 /\ last_call.rec =
                       MapGet(activity_details_map, activity_names[First(exact)])
            /\ (exact = {} /\ cont # {}) =>
                 /\ last_call.stage = "containment"
                 /\ last_call.score =
                       ContainmentScore(last_call.q, activity_names[First(cont)])
                 /\ last_call.rec =
                       MapGet(activity_details_map, activity_names[First(cont)])
            /\ (exact = {} /\ cont = {}) => last_call.stage = "best_effort"

\* a containment candidate is returned although a scorer of the best-effort
\* stage gives another name a higher score
C3_Witness ==
    /\ Called
    /\ last_call.stage = "containment"
    /\ \E k \in 1..Len(Scorers), i \in 1..Len(activity_names) :
          ScoreGt(Scorer(Scorers[k], last_call.q, activity_names[i]), last_call.score)

\* C4 as stated: with the query and index fixed, the score returned at the
\* lower threshold is at least the score of the match returned at the higher.
C4_LowerThresholdNeverLowersScore ==
    \A p \in CallPairs :
        p[2].rec # None => ScoreGeq(p[1].score, p[2].score)

\* C4 amended: the score at the lower threshold t1 is at least the score of
\* the match returned at the higher threshold t2, unless the result at t1 is a
\* containment-stage candidate whose score is below t2.
C4_LowerThresholdScoreUnlessContainment ==
    \A p \in CallPairs :
        (/\ p[2].rec # None
         /\ ~(p[1].stage = "containment" /\ p[1].score.n < p[2].t * p[1].score.d))
            => ScoreGeq(p[1].score, p[2].score)

\* both thresholds return a match found by the scorers, not by the exact scan
C4_Witness ==
    \E p \in CallPairs :
        /\ p[1].stage = "best_effort"
        /\ p[2].stage = "best_effort"
        /\ p[2].rec # None
        /\ Len(activity_names) = 2

\* C5 as stated: the result at the higher threshold is the result at the lower
\* threshold or the non-match.
C5_HigherThresholdSameOrNoMatch ==
    \A p \in CallPairs :
        \/ (p[2].rec = p[1].rec /\ p[2].score = p[1].score)
        \/ IsNoMatch(p[2])

\* C5 amended: the result at the higher threshold t2 is the result at the
\* lower threshold t1 or the non-match, unless the result at t1 is a
\* containment-stage candidate whose score is below t2 (the scan at t2 then
\* goes on to later candidates and may return another record).
C5_HigherThresholdSameOrNoMatchUnlessContainment ==
    \A p \in CallPairs :
        ~(p[1].stage = "containment" /\ p[1].score.n < p[2].t * p[1].score.d)
            => \/ (p[2].rec = p[1].rec /\ p[2].score = p[1].score)
               \/ IsNoMatch(p[2])

\* a match at the lower threshold becomes the non-match at the higher one
C5_Witness ==
    \E p \in CallPairs :
        /\ p[1].rec # None
        /\ p[1].stage = "best_effort"
        /\ IsNoMatch(p[2])

\* C6: with the query and index fixed, a non-match at a threshold is a
\* non-match at every higher threshold.
C6_NoMatchStaysNoMatch ==
    \A p \in CallPairs : IsNoMatch(p[1]) => IsNoMatch(p[2])

\* the non-match at both thresholds, on a catalog with a name that scores
\* above zero
C6_Witness ==
    \E p \in CallPairs :
        /\ IsNoMatch(p[1])
        /\ IsNoMatch(p[2])
        /\ p[1].t > 0
        /\ \E i \in 1..Len(activity_names) :
              ScoreGt(Scorer("ratio", p[1].q, activity_names[i]), Score(0))

ContainmentOk(i) ==
    /\ \/ IsSubstring(lower(last_call.q), lower(activity_names[i]))
       \/ IsSubstring(lower(activity_names[i]), lower(last_call.q))
    /\ \E id \in {"ratio", "partial_ratio", "token_sort_ratio"} :
          Scorer(id, last_call.q, activity_names[i]).n
              >= last_call.t * Scorer(id, last_call.q, activity_names[i]).d

\* C17: when no name equals the query up to letter case, the containment stage
\* returns the first candidate in catalog order that is in case-folded
\* containment with the query and whose maximum of the three scorers is at or
\* above the threshold; containing candidates below the threshold before it are
\* passed over; when no candidate qualifies the best-effort stage runs.
C17_ContainmentFirstQualifying ==
    (Called /\ CaseFoldEqual(last_call.q) = {}) =>
        /\ \A i \in 1..Len(activity_names) :
              (ContainmentOk(i) /\ \A j \in 1..(i - 1) : ~ContainmentOk(j))
                 => /\ last_call.stage = "containment"
                    /\ last_call.rec = MapGet(activity_details_map, activity_names[i])
                    /\ last_call.rec.title = activity_names[i]
                    /\ \A id \in {"ratio", "partial_ratio", "token_sort_ratio"} :
                          ScoreGeq(last_call.score,
                                   Scorer(id, last_call.q, activity_names[i]))
                    /\ \E id \in {"ratio", "partial_ratio", "token_sort_ratio"} :
                          last_call.score = Scorer(id, last_call.q, activity_names[i])
        /\ (\A i \in 1..Len(activity_names) : ~ContainmentOk(i))
              => last_call.stage = "best_effort"

\* the first candidate contains the query but scores below the threshold; the
\* scan goes on and returns the second candidate
C17_Witness ==
    /\ Called
    /\ CaseFoldEqual(last_call.q) = {}
    /\ Len(activity_names) = 2
    /\ activity_names[1] # <<>>
    /\ IsSubstring(lower(last_call.q), lower(activity_names[1]))
    /\ ~ContainmentOk(1)
    /\ ContainmentOk(2)
    /\ last_call.stage = "containment"
    /\ last_call.rec.uid = 2

\* the values the four scorers give the catalog names for the last call's query
ScorerValues ==
    {Scorer(Scorers[k], last_call.q, activity_names[i]) :
        k \in 1..Len(Scorers), i \in 1..Len(activity_names)}

\* C18: when the exact and containment stages both fail, the best-effort stage
\* returns as score the maximum, over the four scorers and all catalog names,
\* of the scorer's value for (query, name), provided that maximum is at or
\* above the threshold; no scorer then gives a name a higher score than the
\* one returned.
C18_BestEffortReturnsMaximum ==
    (Called /\ last_call.stage = "best_effort") =>
        \A v \in ScorerValues :
            (/\ \A w \in ScorerValues : ScoreGeq(v, w)
             /\ v.n >= last_call.t * v.d)
                => /\ last_call.score = v
                   /\ \A w \in ScorerValues : ~ScoreGt(w, last_call.score)

\* the maximum is reached by a later scorer on the second name, after the
\* first scorer had a lower result
C18_Witness ==
    /\ Called
    /\ last_call.stage = "best_effort"
    /\ last_call.rec # None
    /\ Len(activity_names) = 2
    /\ last_call.rec.title = activity_names[2]
    /\ activity_names[1] # activity_names[2]
    /\ extractOne(last_call.q, activity_names, Scorers[1], last_call.t).found
    /\ ScoreGt(last_call.score,
               extractOne(last_call.q, activity_names, Scorers[1], last_call.t).score)

\* the result of scorer number k in the best-effort stage of the last call
ScorerResult(k) ==
    extractOne(last_call.q, activity_names, Scorers[k], last_call.t)

\* scorer number k has a result and no scorer has a result with a higher score
ReachesTop(k) ==
    /\ ScorerResult(k).found
    /\ \A j \in 1..Len(Scorers) :
          ScorerResult(j).found
             => ScoreGeq(ScorerResult(k).score, ScorerResult(j).score)

\* C19: in the best-effort stage the scorers run in the order ratio, partial
\* ratio, token-sort ratio, token-set ratio and the running best is replaced
\* only by a strictly greater score: the record returned is the one found by
\* the first scorer, in that order, that reaches the top score, also when a
\* later scorer reaches the same score with another candidate.
C19_FirstScorerKeepsTie ==
    (Called /\ last_call.stage = "best_effort") =>
        /\ Scorers = <<"ratio", "partial_ratio", "token_sort_ratio", "token_set_ratio">>
        /\ \A k \in 1..Len(Scorers) :
              (/\ ReachesTop(k)
               /\ \A j \in 1..(k - 1) : ~ReachesTop(j)
               /\ ScoreGt(ScorerResult(k).score, Score(0)))
                  => /\ last_call.rec =
                           MapGet(activity_details_map, ScorerResult(k).name)
                     /\ last_call.score = ScorerResult(k).score

\* two scorers reach the same top score with different candidates; the
\* candidate of the one that ran first is returned
C19_Witness ==
    /\ Called
    /\ last_call.stage = "best_effort"
    /\ \E k1, k2 \in 1..Len(Scorers) :
          /\ k1 < k2
          /\ ReachesTop(k1)
          /\ ReachesTop(k2)
          /\ \A j \in 1..Len(Scorers) : j > k2 => ~ReachesTop(j)
          /\ ScorerResult(k1).name # ScorerResult(k2).name
          /\ last_call.rec.title = ScorerResult(k1).name

-----------------------------------------------------------------------------
(* find_best_match at the edges of its domain *)

InitEdge ==
    /\ \E catalog \in EdgeCatalogs : InitShared(catalog, <<>>)
    /\ ParseIdle

\* a call find_best_match(q, t) with empty or unrelated text and a threshold
\* at or beyond the ends of the score range
ResolveEdge ==
    /\ pc = "ready"
    /\ \E q \in EdgeQueryPool, t \in EdgeThresholds :
          LET c == Call(q, t, find_best_match(q, t, activity_names, activity_details_map))
          IN  /\ last_call' = c
              /\ first_call' = IF calls_made = "none" THEN c ELSE first_call
              /\ calls_made' = IF calls_made = "none" THEN "one" ELSE "many"
    /\ UNCHANGED <<activities, activity_names, activity_details_map, pc, schedule,
                   schedule_names, matched_activity_titles, unmatched_activities,
                   program_text, activity_title, entries, entry_src, frames,
                   renderVars, summaryVars, scrapeVars>>

NextEdge == LoadActivity \/ ResolveEdge

SpecEdge == InitEdge /\ [][NextEdge]_vars

\* some scorer of the best-effort stage gives some catalog name a value at or
\* above threshold t for query q
ScorerCandidate(q, t) ==
    \E k \in 1..Len(Scorers), i \in 1..Len(activity_names) :
        Scorer(Scorers[k], q, activity_names[i]).n
            >= t * Scorer(Scorers[k], q, activity_names[i]).d

\* C13 as stated: every call returns a result; when no stage finds a candidate
\* the result is the non-match (none, 0), and the non-match is returned only
\* if no scorer of the best-effort stage has a candidate at or above the
\* threshold.
C13_NoMatchOnlyWithoutCandidate ==
    Called =>
        /\ last_call.stage \in {"exact", "containment", "best_effort"}
        /\ (/\ CaseFoldEqual(last_call.q) = {}
            /\ Qualifies(last_call.q, last_call.t) = {}
            /\ ~ScorerCandidate(last_call.q, last_call.t)) => IsNoMatch(last_call)
        /\ IsNoMatch(last_call) => ~ScorerCandidate(last_call.q, last_call.t)

\* the last catalog record with the given title
LastRecord(title) ==
    activities[CHOOSE j \in 1..Len(activities) :
                  /\ activities[j].title = title
                  /\ \A k \in 1..Len(activities) :
                        activities[k].title = title => k <= j]

\* the built index: one name per catalog record in catalog order, every name a
\* key of the mapping, the mapping holding the last record of each title
IndexBuilt ==
    /\ Len(activity_names) = Len(activities)
    /\ \A i \in 1..Len(activities) :
          /\ activity_names[i] = activities[i].title
          /\ activity_names[i] \in DOMAIN activity_details_map
          /\ activity_details_map[activity_names[i]] = LastRecord(activity_names[i])

\* the query of the last call is a title that occurs twice in the index
QueryDuplicated ==
    \E i, j \in 1..Len(activity_names) :
        i < j /\ activity_names[i] = last_call.q /\ activity_names[j] = last_call.q

\* C14 as stated: the built index keeps one name per record in catalog order,
\* every name is a key of the mapping and the mapping holds the last record of
\* each title; find_best_match on a duplicated title returns the later record.
C14_DuplicatedTitleReturnsLaterRecord ==
    pc = "ready" =>
        /\ IndexBuilt
        /\ (Called /\ QueryDuplicated) => last_call.rec = LastRecord(last_call.q)

\* C14 amended: the same index invariants; find_best_match on a duplicated
\* title returns the later record of that title (the name being found at its
\* earlier position) when no earlier catalog title differs from the queried
\* title only by letter case.
C14_DuplicatedTitleLaterRecordUnlessCaseVariant ==
    pc = "ready" =>
        /\ IndexBuilt
        /\ (/\ Called
            /\ QueryDuplicated
            /\ activity_names[First(CaseFoldEqual(last_call.q))] = last_call.q)
                => /\ last_call.rec = LastRecord(last_call.q)
                   /\ last_call.rec.uid > First(CaseFoldEqual(last_call.q))
                   /\ last_call.score = Score(100)

\* three records, the first and the last with the queried title: the name is
\* found at position 1 and the record of position 3 is returned
C14_Witness ==
    /\ pc = "ready"
    /\ Called
    /\ Len(activity_names) = 3
    /\ activity_names[1] = last_call.q
    /\ activity_names[3] = last_call.q
    /\ activity_names[2] # last_call.q
    /\ last_call.q # <<>>
    /\ last_call.rec.uid = 3

\* C16 as stated: a record whose title is the empty string is never returned,
\* and the empty query never yields a record; taken here at the thresholds
\* within the score range 1..100 only.
C16_EmptyTextAlwaysLoses ==
    (Called /\ last_call.t \in 1..100) =>
        /\ last_call.rec # None => last_call.rec.title # <<>>
        /\ last_call.q = <<>> => last_call.rec = None

-----------------------------------------------------------------------------
(* find_best_match step by step, several calls at a time on one index *)

ConcTitlePool == { <<"a","b">>, <<"a","b","b">>, <<"A"," ","b">> }

ConcQueryPool == { <<"A","b">>, <<"a"," ","b">> }

ConcThresholds == {60, 100}

ConcCatalogs ==
    UNION { [1..k -> ConcTitlePool] : k \in 0..MaxCatalog }

InitConc ==
    /\ \E catalog \in ConcCatalogs : InitShared(catalog, <<>>)
    /\ ParseIdle

\* line 29: a caller enters find_best_match(q, t)
CallStart(th) ==
    /\ pc = "ready"
    /\ frames[th].pc \in {"idle", "done"}
    /\ \E q \in ConcQueryPool, t \in ConcThresholds :
          frames' = [frames EXCEPT ![th] =
                        Frame("exact", q, t, 1, None, Score(0), None, Score(0))]
    /\ UNCHANGED <<activities, activity_names, activity_details_map, pc, first_call,
                   last_call, calls_made, schedule, schedule_names,
                   matched_activity_titles, unmatched_activities, program_text,
                   activity_title, entries, entry_src,
                   renderVars, summaryVars, scrapeVars>>

\* lines 32-34: one iteration of the exact scan (or its end, line 37)
ExactStep(th) ==
    /\ frames[th].pc = "exact"
    /\ LET f == frames[th]
       IN  frames' = [frames EXCEPT ![th] =
              IF f.i > Len(activity_names)
              THEN Frame("containment", f.q, f.t, 1, None, Score(0), None, Score(0))
              ELSE IF lower(f.q) = lower(activity_names[f.i])
              THEN Frame("done", f.q, f.t, 0, None, Score(0),
                         MapGet(activity_details_map, activity_names[f.i]), Score(100))
              ELSE Frame("exact", f.q, f.t, f.i + 1, None, Score(0), None, Score(0))]
    /\ UNCHANGED <<activities, activity_names, activity_details_map, pc, first_call,
                   last_call, calls_made, schedule, schedule_names,
                   matched_activity_titles, unmatched_activities, program_text,
                   activity_title, entries, entry_src,
                   renderVars, summaryVars, scrapeVars>>

\* lines 38-48: one iteration of the containment scan (or its end, lines 51-52)
ContainmentStep(th) ==
    /\ frames[th].pc = "containment"
    /\ LET f == frames[th]
       IN  frames' = [frames EXCEPT ![th] =
              IF f.i > Len(activity_names)
              THEN Frame("best_effort", f.q, f.t, 1, None, Score(0), None, Score(0))
              ELSE LET activity_name == activity_names[f.i]
                       score == ScoreMax(Scorer("ratio", f.q, activity_name),
                                  ScoreMax(Scorer("partial_ratio", f.q, activity_name),
                                           Scorer("token_sort_ratio", f.q, activity_name)))
                   IN  IF /\ \/ IsSubstring(lower(f.q), lower(activity_name))
                             \/ IsSubstring(lower(activity_name), lower(f.q))
                          /\ MeetsThreshold(score, f.t)
                       THEN Frame("done", f.q, f.t, 0, None, Score(0),
                                  MapGet(activity_details_map, activity_name), score)
                       ELSE Frame("containment", f.q, f.t, f.i + 1, None, Score(0),
                                  None, Score(0))]
    /\ UNCHANGED <<activities, activity_names, activity_details_map, pc, first_call,
                   last_call, calls_made, schedule, schedule_names,
                   matched_activity_titles, unmatched_activities, program_text,
                   activity_title, entries, entry_src,
                   renderVars, summaryVars, scrapeVars>>

\* mutant: best_match and best_score are module-level variables, shared by the
\* callers: a caller compares with, and keeps, the highest best of any frame
ScorerStep_SharedBest(th) ==
    /\ frames[th].pc = "best_effort"
    /\ frames[th].i <= Len(Scorers)
    /\ LET f == frames[th]
           g == frames[CHOOSE o \in Threads :
                          \A u \in Threads :
                              ScoreGeq(frames[o].best_score, frames[u].best_score)]
           result == extractOne(f.q, activity_names, Scorers[f.i], f.t)
       IN  frames' = [frames EXCEPT ![th] =
              IF result.found /\ ScoreGt(result.score, g.best_score)
              THEN Frame("best_effort", f.q, f.t, f.i + 1,
                         MapGet(activity_details_map, result.name), result.score,
                         None, Score(0))
              ELSE Frame("best_effort", f.q, f.t, f.i + 1, g.best_match,
                         g.best_score, None, Score(0))]
    /\ UNCHANGED <<activities, activity_names, activity_details_map, pc, first_call,
                   last_call, calls_made, schedule, schedule_names,
                   matched_activity_titles, unmatched_activities, program_text,
                   activity_title, entries, entry_src,
                   renderVars, summaryVars, scrapeVars>>

\* lines 54-65: one iteration of the loop over the scorers
ScorerStep(th) ==
    /\ frames[th].pc = "best_effort"
    /\ frames[th].i <= Len(Scorers)
    /\ LET f == frames[th]
           result == extractOne(f.q, activity_names, Scorers[f.i], f.t)
       IN  frames' = [frames EXCEPT ![th] =
              IF result.found /\ ScoreGt(result.score, f.best_score)
              THEN Frame("best_effort", f.q, f.t, f.i + 1,
                         MapGet(activity_details_map, result.name), result.score,
                         None, Score(0))
              ELSE Frame("best_effort", f.q, f.t, f.i + 1, f.best_match,
                         f.best_score, None, Score(0))]
    /\ UNCHANGED <<activities, activity_names, activity_details_map, pc, first_call,
                   last_call, calls_made, schedule, schedule_names,
                   matched_activity_titles, unmatched_activities, program_text,
                   activity_title, entries, entry_src,
                   renderVars, summaryVars, scrapeVars>>

\* line 67
ReturnBest(th) ==
    /\ frames[th].pc = "best_effort"
    /\ frames[th].i > Len(Scorers)
    /\ LET f == frames[th]
       IN  frames' = [frames EXCEPT ![th] =
              Frame("done", f.q, f.t, 0, None, Score(0), f.best_match, f.best_score)]
    /\ UNCHANGED <<activities, activity_names, activity_details_map, pc, first_call,
                   last_call, calls_made, schedule, schedule_names,
                   matched_activity_titles, unmatched_activities, program_text,
                   activity_title, entries, entry_src,
                   renderVars, summaryVars, scrapeVars>>

NextConc ==
    \/ LoadActivity
    \/ \E th \in Threads : CallStart(th)
    \/ \E th \in Threads : ExactStep(th)
    \/ \E th \in Threads : ContainmentStep(th)
    \/ \E th \in Threads : ScorerStep(th)
    \/ \E th \in Threads : ReturnBest(th)

SpecConc == InitConc /\ [][NextConc]_vars

\* C15: the calls only read the index: while callers run, the name sequence
\* and the mapping stay as built from the catalog, and however the steps of
\* the concurrent calls interleave, every call that returns has the result the
\* same call has when it runs alone.
C15_InterleavedCallsReturnAsAlone ==
    pc = "ready" =>
        /\ IndexBuilt
        /\ \A th \in Threads :
              frames[th].pc = "done" =>
                  LET alone == find_best_match(frames[th].q, frames[th].t,
                                               activity_names, activity_details_map)
                  IN  /\ frames[th].rec = alone.rec
                      /\ frames[th].score = alone.score

\* a caller has returned a best-effort match while another caller, with a
\* different query, is in the middle of its loop over the scorers
C15_Witness ==
    \E th, o \in Threads :
        /\ th # o
        /\ frames[th].pc = "done"
        /\ frames[th].rec # None
        /\ frames[o].pc = "best_effort"
        /\ frames[o].i = 3
        /\ frames[o].q # frames[th].q
        /\ find_best_match(frames[th].q, frames[th].t, activity_names,
                           activity_details_map).stage = "best_effort"

-----------------------------------------------------------------------------
(* Unmatched-activities report: lines 126-140 *)

InitReport ==
    /\ \E catalog \in ReportCatalogs, sched \in Schedules : InitShared(catalog, sched)
    /\ ParseIdle

\* lines 127-130: the set of the schedule's names
CollectNames ==
    /\ pc = "ready"
    /\ schedule_names' = Range(schedule)
    /\ pc' = "match"
    /\ UNCHANGED <<activities, activity_names, activity_details_map, first_call,
                   last_call, calls_made, schedule, matched_activity_titles,
                   unmatched_activities, program_text, activity_title, entries,
                   entry_src, frames,
                   renderVars, summaryVars, scrapeVars>>

\* mutant: each matched title replaces the matched set instead of joining it
MatchName_KeepsLastOnly ==
    /\ pc = "match"
    /\ \E schedule_name \in schedule_names :
          LET details == find_best_match(schedule_name, DefaultThreshold,
                                         activity_names, activity_details_map).rec
          IN  /\ matched_activity_titles' =
                    IF details # None
                    THEN {details.title}
                    ELSE matched_activity_titles
              /\ schedule_names' = schedule_names \ {schedule_name}
    /\ UNCHANGED <<activities, activity_names, activity_details_map, pc, first_call,
                   last_call, calls_made, schedule, unmatched_activities, program_text,
                   activity_title, entries, entry_src, frames,
                   renderVars, summaryVars, scrapeVars>>

\* lines 133-136: one iteration over the set, in the set's (arbitrary) order;
\* schedule_names holds the names not yet visited
MatchName ==
    /\ pc = "match"
    /\ \E schedule_name \in schedule_names :
          LET details == find_best_match(schedule_name, DefaultThreshold,
                                         activity_names, activity_details_map).rec
          IN  /\ matched_activity_titles' =
                    IF details # None
                    THEN matched_activity_titles \cup {details.title}
                    ELSE matched_activity_titles
              /\ schedule_names' = schedule_names \ {schedule_name}
    /\ UNCHANGED <<activities, activity_names, activity_details_map, pc, first_call,
                   last_call, calls_made, schedule, unmatched_activities, program_text,
                   activity_title, entries, entry_src, frames,
                   renderVars, summaryVars, scrapeVars>>

RECURSIVE DistinctInOrder(_, _)
DistinctInOrder(sq, seen) ==
    IF sq = <<>> THEN <<>>
    ELSE IF Head(sq) \in seen THEN DistinctInOrder(Tail(sq), seen)
    ELSE <<Head(sq)>> \o DistinctInOrder(Tail(sq), seen \cup {Head(sq)})

\* mutant: the list is built from the mapping's keys, one per distinct title
ComputeUnmatched_FromMapKeys ==
    /\ pc = "match"
    /\ schedule_names = {}
    /\ unmatched_activities' =
          SelectSeq(DistinctInOrder(activity_names, {}),
                    LAMBDA name : name \notin matched_activity_titles)
    /\ pc' = "reported"
    /\ UNCHANGED <<activities, activity_names, activity_details_map, first_call,
                   last_call, calls_made, schedule, schedule_names, matched_activity_titles,
                   program_text, activity_title, entries, entry_src, frames,
                   renderVars, summaryVars, scrapeVars>>

\* lines 138-140
ComputeUnmatched ==
    /\ pc = "match"
    /\ schedule_names = {}
    /\ unmatched_activities' =
          SelectSeq(activity_names, LAMBDA name : name \notin matched_activity_titles)
    /\ pc' = "reported"
    /\ UNCHANGED <<activities, activity_names, activity_details_map, first_call,
                   last_call, calls_made, schedule, schedule_names, matched_activity_titles,
                   program_text, activity_title, entries, entry_src, frames,
                   renderVars, summaryVars, scrapeVars>>

NextReport == LoadActivity \/ CollectNames \/ MatchName \/ ComputeUnmatched

SpecReport == InitReport /\ [][NextReport]_vars

-----------------------------------------------------------------------------
(* Properties of the report, checked under SpecReport *)

EveryTitleScheduled == Range(activity_names) \subseteq Range(schedule)

\* no two titles differ only by letter case
NoCaseVariants ==
    \A i, j \in 1..Len(activity_names) :
        lower(activity_names[i]) = lower(activity_names[j])
            => activity_names[i] = activity_names[j]

\* C10 as stated: when every title occurs verbatim among the schedule's names,
\* the unmatched list is empty, for every catalog.
C10_AllScheduledNoneUnmatched ==
    (pc = "reported" /\ EveryTitleScheduled) => unmatched_activities = <<>>

\* C10 amended: when every title occurs verbatim among the schedule's names
\* and no two titles differ only by letter case, the unmatched list is empty;
\* titles that contain one another do not change this.
C10_AllScheduledNoneUnmatchedNoCaseVariants ==
    (pc = "reported" /\ EveryTitleScheduled /\ NoCaseVariants)
        => unmatched_activities = <<>>

\* two different titles, one containing the other, both scheduled
C10_Witness ==
    /\ pc = "reported"
    /\ EveryTitleScheduled
    /\ NoCaseVariants
    /\ Len(activity_names) = 2
    /\ activity_names[1] # activity_names[2]
    /\ Contains(activity_names[1], activity_names[2])
    /\ unmatched_activities = <<>>

\* C11: when the schedule has no entries, the unmatched list is the index's
\* whole ordered title sequence: every catalog title, in catalog order,
\* duplicates included.
C11_EmptyScheduleAllUnmatched ==
    (pc = "reported" /\ schedule = <<>>)
        => /\ unmatched_activities = activity_names
           /\ Len(unmatched_activities) = Len(activities)
           /\ \A i \in 1..Len(activities) :
                 unmatched_activities[i] = activities[i].title

\* an empty schedule and a catalog that holds the same title twice
C11_Witness ==
    /\ pc = "reported"
    /\ schedule = <<>>
    /\ Len(activities) = 2
    /\ activities[1].title = activities[2].title
    /\ Len(unmatched_activities) = 2

\* the titles of the records find_best_match returns for the schedule's names
MatchedTitles ==
    {r.title : r \in
        {find_best_match(s, DefaultThreshold, activity_names,
                         activity_details_map).rec : s \in Range(schedule)} \ {None}}

\* C12: the unmatched list is the ordered title sequence filtered to the
\* titles that are the title of no record find_best_match returns for a
\* schedule name: catalog order is kept, a title matched by some schedule name
\* (in particular by exact case-insensitive match) is absent, and the order in
\* which the schedule names are visited makes no difference.
C12_UnmatchedIsCatalogMinusMatched ==
    pc = "reported"
        => /\ unmatched_activities =
                 SelectSeq(activity_names, LAMBDA name : name \notin MatchedTitles)
           /\ \A s \in Range(schedule) :
                 LET hits == {i \in 1..Len(activity_names) :
                                 lower(activity_names[i]) = lower(s)}
                 IN  hits # {} =>
                        activity_names[First(hits)] \notin Range(unmatched_activities)

\* two schedule names were visited; one title is matched by a name that differs
\* from it by letter case, the other title stays in the list
C12_Witness ==
    /\ pc = "reported"
    /\ Cardinality(Range(schedule)) = 2
    /\ Len(activity_names) = 2
    /\ Len(unmatched_activities) = 1
    /\ \E s \in Range(schedule) :
          /\ s \notin Range(activity_names)
          /\ \E i \in 1..2 : lower(activity_names[i]) = lower(s)

-----------------------------------------------------------------------------
(* parse_schedule_program: lines 69-117 *)

RECURSIVE SplitLinesAcc(_, _, _)
SplitLinesAcc(s, cur, acc) ==
    IF s = <<>> THEN Append(acc, cur)
    ELSE IF Head(s) = "\n" THEN SplitLinesAcc(Tail(s), <<>>, Append(acc, cur))
         ELSE SplitLinesAcc(Tail(s), Append(cur, Head(s)), acc)

\* str.split('\n'): empty pieces are kept
SplitLines(s) == SplitLinesAcc(s, <<>>, <<>>)

RECURSIVE LStrip(_)
LStrip(s) == IF s # <<>> /\ IsSpace(Head(s)) THEN LStrip(Tail(s)) ELSE s

RECURSIVE RStrip(_)
RStrip(s) ==
    IF s # <<>> /\ IsSpace(s[Len(s)]) THEN RStrip(SubSeq(s, 1, Len(s) - 1)) ELSE s

\* str.strip()
strip(s) == RStrip(LStrip(s))

RECURSIVE StripNonEmpty(_)
\* line 73: [line.strip() for line in pieces if line.strip()]
StripNonEmpty(pieces) ==
    IF pieces = <<>> THEN <<>>
    ELSE IF strip(Head(pieces)) # <<>>
         THEN <<strip(Head(pieces))>> \o StripNonEmpty(Tail(pieces))
         ELSE StripNonEmpty(Tail(pieces))

ProgramWord == <<"p", "r", "o", "g", "r", "a", "m">>

\* an optional argument is the empty set (None) or a singleton; None and ''
\* are both falsy
Truthy(opt) == opt # {} /\ opt # {<<>>}

TheValue(opt) == CHOOSE v \in opt : TRUE

\* mutant: the first line is dropped whatever it says
DropProgram_Always(lines) == IF lines # <<>> THEN Tail(lines) ELSE lines

\* lines 77-78
DropProgram(lines) ==
    IF lines # <<>> /\ lower(lines[1]) = ProgramWord THEN Tail(lines) ELSE lines

\* lines 79-80
DropTitle(lines, title) ==
    IF Truthy(title) /\ lines # <<>> /\ lower(lines[1]) = lower(TheValue(title))
    THEN Tail(lines) ELSE lines

\* mutant: the title line is looked for before the 'program' line
PreprocessLines_TitleFirst(text, title) ==
    DropProgram(DropTitle(StripNonEmpty(SplitLines(text)), title))

\* lines 73-80: the lines the classification loop runs over
PreprocessLines(text, title) ==
    DropTitle(DropProgram(StripNonEmpty(SplitLines(text))), title)

IsDigit(c) == c \in {"0", "1", "2", "3", "4", "5", "6", "7", "8", "9"}

\* positions right after a match of \d{1,2}:\d{2} that starts at position i
HourMinuteEnds(s, i) ==
    {i + k + 3 : k \in {k \in {1, 2} :
        /\ i + k + 2 <= Len(s)
        /\ \A j \in i..(i + k - 1) : IsDigit(s[j])
        /\ s[i + k] = ":"
        /\ IsDigit(s[i + k + 1])
        /\ IsDigit(s[i + k + 2])}}

AllSpace(s, from, to) == \A j \in from..to : IsSpace(s[j])

\* mutant: the pattern is searched anywhere in the line (no ^ and $)
is_time_line_Search(value) ==
    \E i \in 1..Len(value) : HourMinuteEnds(value, i) # {}

\* lines 82-83: re.match(r'^\d{1,2}:\d{2}(\s*-\s*\d{1,2}:\d{2})?$', value)
is_time_line(value) ==
    \E e \in HourMinuteEnds(value, 1) :
        \/ e = Len(value) + 1
        \/ \E a \in e..Len(value) :
              /\ AllSpace(value, e, a - 1)
              /\ value[a] = "-"
              /\ \E b \in (a + 1)..Len(value) :
                    /\ AllSpace(value, a + 1, b - 1)
                    /\ (Len(value) + 1) \in HourMinuteEnds(value, b)

\* lines 85-88: the literals of the source file, character by character; a
\* character outside ASCII is written as its code point
day_tokens ==
    << <<"l","u","n","i">>,
       <<"m","a","r","t","i">>,
       <<"m","a","r","U+00C8","U+203A","i">>,
       <<"m","i","e","r","c","u","r","i">>,
       <<"j","o","i">>,
       <<"v","i","n","e","r","i">>,
       <<"s","a","m","b","a","t","a">>,
       <<"s","U+00C3","U+00A2","m","b","U+00C4","U+0192","t","U+00C4","U+0192">>,
       <<"d","u","m","i","n","i","c","a">>,
       <<"d","u","m","i","n","i","c","U+00C4","U+0192">> >>

\* lines 90-92
is_days_line(value) ==
    \E k \in 1..Len(day_tokens) : IsSubstring(day_tokens[k], lower(value))

\* mutant: a days line does not clear current_location
ParseStep_DaysKeepsLocation(st, lines, i) ==
    LET line == lines[i]
    IN  IF is_days_line(line)
        THEN [st EXCEPT !.current_days = line]
        ELSE IF is_time_line(line)
        THEN IF st.current_location # <<>>
             THEN [st EXCEPT
                     !.entries = Append(@, [days |-> st.current_days,
                                            location |-> st.current_location,
                                            time |-> line]),
                     !.src = Append(@, st.loc_at),
                     !.current_location = <<>>,
                     !.loc_at = 0]
             ELSE st
        ELSE [st EXCEPT !.current_location = line, !.loc_at = i]

\* mutant: a row is emitted without clearing current_location
ParseStep_TimeKeepsLocation(st, lines, i) ==
    LET line == lines[i]
    IN  IF is_days_line(line)
        THEN [st EXCEPT !.current_days = line, !.current_location = <<>>, !.loc_at = 0]
        ELSE IF is_time_line(line)
        THEN IF st.current_location # <<>>
             THEN [st EXCEPT
                     !.entries = Append(@, [days |-> st.current_days,
                                            location |-> st.current_location,
                                            time |-> line]),
                     !.src = Append(@, st.loc_at)]
             ELSE st
        ELSE [st EXCEPT !.current_location = line, !.loc_at = i]

\* mutant: emitting a row also clears current_days
ParseStep_EmitClearsDays(st, lines, i) ==
    LET line == lines[i]
    IN  IF is_days_line(line)
        THEN [st EXCEPT !.current_days = line, !.current_location = <<>>, !.loc_at = 0]
        ELSE IF is_time_line(line)
        THEN IF st.current_location # <<>>
             THEN [st EXCEPT
                     !.entries = Append(@, [days |-> st.current_days,
                                            location |-> st.current_location,
                                            time |-> line]),
                     !.src = Append(@, st.loc_at),
                     !.current_days = <<>>,
                     !.current_location = <<>>,
                     !.loc_at = 0]
             ELSE st
        ELSE [st EXCEPT !.current_location = line, !.loc_at = i]

\* mutant: a location line is kept only when no location is pending
ParseStep_FirstLocationWins(st, lines, i) ==
    LET line == lines[i]
    IN  IF is_days_line(line)
        THEN [st EXCEPT !.current_days = line, !.current_location = <<>>, !.loc_at = 0]
        ELSE IF is_time_line(line)
        THEN IF st.current_location # <<>>
             THEN [st EXCEPT
                     !.entries = Append(@, [days |-> st.current_days,
                                            location |-> st.current_location,
                                            time |-> line]),
                     !.src = Append(@, st.loc_at),
                     !.current_location = <<>>,
                     !.loc_at = 0]
             ELSE st
        ELSE IF st.current_location # <<>> THEN st
        ELSE [st EXCEPT !.current_location = line, !.loc_at = i]

\* one iteration of the loop of lines 98-115 on line i; st holds current_days,
\* current_location (None is the empty string: a line is never empty),
\* the rows and, per row, the index of the line its location came from
ParseStep(st, lines, i) ==
    LET line == lines[i]
    IN  IF is_days_line(line)
        THEN [st EXCEPT !.current_days = line, !.current_location = <<>>, !.loc_at = 0]
        ELSE IF is_time_line(line)
        THEN IF st.current_location # <<>>
             THEN [st EXCEPT
                     !.entries = Append(@, [days |-> st.current_days,
                                            location |-> st.current_location,
                                            time |-> line]),
                     !.src = Append(@, st.loc_at),
                     !.current_location = <<>>,
                     !.loc_at = 0]
             ELSE st
        ELSE [st EXCEPT !.current_location = line, !.loc_at = i]

RECURSIVE ParseLoop(_, _, _)
ParseLoop(st, lines, i) ==
    IF i > Len(lines) THEN st ELSE ParseLoop(ParseStep(st, lines, i), lines, i + 1)

ParseStart ==
    [current_days |-> <<>>, current_location |-> <<>>, loc_at |-> 0,
     entries |-> <<>>, src |-> <<>>]

\* parse_schedule_program(program_text, activity_title)
parse_schedule_program(text, title) ==
    IF text = <<>> THEN ParseStart
    ELSE IF StripNonEmpty(SplitLines(text)) = <<>> THEN ParseStart
    ELSE ParseLoop(ParseStart, PreprocessLines(text, title), 1)

\* raw lines the texts are made of
RawLinePool ==
    { <<"P","r","o","g","r","a","m">>,
      <<"L","u","n","i">>,
      <<"S","p","a">>,
      <<" ","S","a","l","a"," ">>,
      <<"8",":","0","0">>,
      <<"8",":","0","0"," ","-","1","0",":","3","0">>,
      <<" ">> }

TitleArgs == { {}, {<<"s","p","a">>} }

RECURSIVE JoinLines(_)
\* '\n'.join(lines)
JoinLines(ls) ==
    IF ls = <<>> THEN <<>>
    ELSE IF Len(ls) = 1 THEN ls[1]
         ELSE ls[1] \o <<"\n">> \o JoinLines(Tail(ls))

Texts == { JoinLines(ls) : ls \in UNION { [1..k -> RawLinePool] : k \in 0..MaxLines } }

InitParse ==
    /\ InitShared(<<>>, <<>>)
    /\ \E text \in Texts, title \in TitleArgs :
          /\ program_text = text
          /\ activity_title = title
    /\ entries = <<>>
    /\ entry_src = <<>>

\* a call parse_schedule_program(program_text, activity_title)
Parse ==
    /\ pc = "ready"
    /\ LET r == parse_schedule_program(program_text, activity_title)
       IN  /\ entries' = r.entries
           /\ entry_src' = r.src
    /\ pc' = "parsed"
    /\ UNCHANGED <<activities, activity_names, activity_details_map, first_call,
                   last_call, calls_made, schedule, schedule_names, matched_activity_titles,
                   unmatched_activities, program_text, activity_title, frames,
                   renderVars, summaryVars, scrapeVars>>

NextParse == Parse

\* longer texts over fewer lines: two days lines, two location lines, a time line
LongLinePool ==
    { <<"L","u","n","i">>,
      <<"j","o","i">>,
      <<"S","p","a">>,
      <<"S","a","l","a">>,
      <<"8",":","0","0">> }

LongTexts ==
    { JoinLines(ls) : ls \in UNION { [1..k -> LongLinePool] : k \in 0..MaxLongLines } }

InitParseLong ==
    /\ InitShared(<<>>, <<>>)
    /\ program_text \in LongTexts
    /\ activity_title = {}
    /\ entries = <<>>
    /\ entry_src = <<>>

SpecParseLong == InitParseLong /\ [][NextParse]_vars

\* lines for the classification of lines: a weekday name followed by a time,
\* and weekday names written with and without diacritics, in several letter
\* cases (mar\u021Bi, S\u00C2MB\u0102T\u0102, Duminic\u0103, marti)
KindLinePool ==
    { <<"L","u","n","i"," ","8",":","0","0">>,
      <<"8",":","0","0">>,
      <<"S","p","a">>,
      <<"m","a","r","U+021B","i">>,
      <<"S","U+00C2","M","B","U+0102","T","U+0102">>,
      <<"D","u","m","i","n","i","c","U+0103">>,
      <<"m","a","r","t","i">> }

KindTexts ==
    { JoinLines(ls) : ls \in UNION { [1..k -> KindLinePool] : k \in 0..MaxLines } }

InitParseKinds ==
    /\ InitShared(<<>>, <<>>)
    /\ program_text \in KindTexts
    /\ activity_title = {}
    /\ entries = <<>>
    /\ entry_src = <<>>

SpecParseKinds == InitParseKinds /\ [][NextParse]_vars

SpecParse == InitParse /\ [][NextParse]_vars

-----------------------------------------------------------------------------
(* Properties of parse_schedule_program, checked under SpecParse *)

\* the classification of a preprocessed line: the time pattern first, then
\* the weekday tokens, else a location
LineKind(line) ==
    IF is_time_line(line) THEN "time"
    ELSE IF is_days_line(line) THEN "days"
    ELSE "location"

\* the text's lines after an optional leading 'program' line
BodyPieces(text) ==
    LET pieces == SplitLines(text)
    IN  IF Len(pieces) = 4 /\ lower(strip(pieces[1])) = ProgramWord
        THEN Tail(pieces) ELSE pieces

\* the text is an optional 'program' line, a days line, a location line and a
\* time line, in that order
IsDaysLocationTime(text) ==
    LET body == BodyPieces(text)
    IN  /\ Len(body) = 3
        /\ \A k \in 1..3 : strip(body[k]) # <<>>
        /\ LineKind(strip(body[1])) = "days"
        /\ LineKind(strip(body[2])) = "location"
        /\ LineKind(strip(body[3])) = "time"

\* C8: a text made of an optional 'program' line, a days line D, a location
\* line L and a time line T, parsed without a title, yields exactly the one
\* row {days: D, location: L, time: T} (the lines trimmed).
C8_DaysLocationTimeOneRow ==
    (pc = "parsed" /\ activity_title = {} /\ IsDaysLocationTime(program_text))
        => LET body == BodyPieces(program_text)
           IN  entries = << [days     |-> strip(body[1]),
                             location |-> strip(body[2]),
                             time     |-> strip(body[3])] >>

\* the four-line form, with the 'program' line, and a padded location line
C8_Witness ==
    /\ pc = "parsed"
    /\ activity_title = {}
    /\ IsDaysLocationTime(program_text)
    /\ Len(SplitLines(program_text)) = 4
    /\ BodyPieces(program_text)[2] # strip(BodyPieces(program_text)[2])
    /\ Len(entries) = 1

\* line i is followed by a time line with no days line in between
FollowedByTime(lines, i) ==
    \E j \in (i + 1)..Len(lines) :
        /\ LineKind(lines[j]) = "time"
        /\ \A m \in (i + 1)..(j - 1) : LineKind(lines[m]) # "days"

\* C9: a location line that is not followed by a time line before the next
\* days line or the end of the input contributes no row: no row takes its
\* location from it, and every row's location is the text of the line it was
\* taken from.
C9_DanglingLocationEmitsNothing ==
    pc = "parsed" =>
        LET lines == PreprocessLines(program_text, activity_title)
        IN  /\ Len(entry_src) = Len(entries)
            /\ \A k \in 1..Len(entries) :
                  /\ entry_src[k] \in 1..Len(lines)
                  /\ entries[k].location = lines[entry_src[k]]
            /\ \A i \in 1..Len(lines) :
                  (LineKind(lines[i]) = "location" /\ ~FollowedByTime(lines, i))
                     => /\ i \notin Range(entry_src)
                        /\ (\A m \in 1..Len(lines) : m # i => lines[m] # lines[i])
                              => \A k \in 1..Len(entries) :
                                    entries[k].location # lines[i]

\* a location line is cut off by a days line while another location emits a row
C9_Witness ==
    /\ pc = "parsed"
    /\ Len(entries) >= 1
    /\ LET lines == PreprocessLines(program_text, activity_title)
       IN  \E i \in 1..Len(lines) :
              /\ LineKind(lines[i]) = "location"
              /\ ~FollowedByTime(lines, i)
              /\ \E j \in (i + 1)..Len(lines) : LineKind(lines[j]) = "time"

\* a line that matches neither the weekday tokens nor the time pattern
IsLocationLine(line) == ~is_days_line(line) /\ ~is_time_line(line)

\* line i is a time line and the line right before it is a location line
EmitsRow(lines, i) ==
    /\ is_time_line(lines[i])
    /\ i > 1
    /\ IsLocationLine(lines[i - 1])

RECURSIVE RowsFrom(_, _)
\* from line i on, one (location, time) pair per emitting time line, in order
RowsFrom(lines, i) ==
    IF i > Len(lines) THEN <<>>
    ELSE (IF EmitsRow(lines, i)
          THEN << [location |-> lines[i - 1], time |-> lines[i]] >>
          ELSE <<>>) \o RowsFrom(lines, i + 1)

\* C20: the rows returned are exactly, in source order, one row per time line
\* whose immediately preceding preprocessed line is a location line, with that
\* line as location; a time line preceded by a days line, by another time line
\* or by nothing emits no row; empty input yields no row.
C20_RowsAreTimeLinesAfterLocation ==
    pc = "parsed" =>
        LET lines == PreprocessLines(program_text, activity_title)
        IN  /\ [k \in 1..Len(entries) |->
                   [location |-> entries[k].location, time |-> entries[k].time]]
                  = RowsFrom(lines, 1)
            /\ \A k \in 1..Len(entries) : EmitsRow(lines, entry_src[k] + 1)
            /\ \A k \in 1..(Len(entries) - 1) : entry_src[k] < entry_src[k + 1]
            /\ program_text = <<>> => entries = <<>>

\* a location line, a time line that emits a row and a second time line right
\* after it that is discarded
C20_Witness ==
    /\ pc = "parsed"
    /\ Len(entries) = 1
    /\ LET lines == PreprocessLines(program_text, activity_title)
       IN  \E i \in 3..Len(lines) :
              /\ IsLocationLine(lines[i - 2])
              /\ is_time_line(lines[i - 1])
              /\ is_time_line(lines[i])

\* the days lines before line i
DaysLinesBefore(lines, i) == {j \in 1..(i - 1) : is_days_line(lines[j])}

\* C21: a days line sets current_days and clears current_location: the days
\* field of every row is the text of the most recent days line before the
\* row's time line (the empty text when there is none), rows emitted after the
\* same days line share it, and a location line cut off from its time line by
\* a days line emits no row.
C21_RowDaysIsMostRecentDaysLine ==
    pc = "parsed" =>
        LET lines == PreprocessLines(program_text, activity_title)
        IN  /\ Len(entry_src) = Len(entries)
            /\ \A k \in 1..Len(entries) :
                  LET before == DaysLinesBefore(lines, entry_src[k] + 1)
                  IN  /\ entry_src[k] + 1 \in 2..Len(lines)
                      /\ entries[k].time = lines[entry_src[k] + 1]
                      /\ entries[k].days =
                            IF before = {} THEN <<>>
                            ELSE lines[CHOOSE j \in before : \A m \in before : m <= j]
            /\ \A i \in 3..Len(lines) :
                  (/\ IsLocationLine(lines[i - 2])
                   /\ is_days_line(lines[i - 1])
                   /\ is_time_line(lines[i]))
                      => \A k \in 1..Len(entries) : entry_src[k] + 1 # i

\* a days line opens the text and the two rows that follow both carry it
C21_Witness ==
    /\ pc = "parsed"
    /\ Len(entries) = 2
    /\ entries[1].days = entries[2].days
    /\ entries[1].days # <<>>
    /\ LET lines == PreprocessLines(program_text, activity_title)
       IN  /\ Len(lines) = 5
           /\ is_days_line(lines[1])

\* lines a..b are location lines, line b + 1 is a time line, and the run of
\* location lines does not extend before a
LocationRun(lines, a, b) ==
    /\ a < b
    /\ b < Len(lines)
    /\ \A m \in a..b : IsLocationLine(lines[m])
    /\ is_time_line(lines[b + 1])
    /\ (a > 1 => ~IsLocationLine(lines[a - 1]))

\* C22: when several location lines stand in a row before a time line, one
\* row is emitted for the time line, it carries the last of the location
\* lines, and none of the earlier ones is the location of any row.
C22_LastLocationWins ==
    pc = "parsed" =>
        LET lines == PreprocessLines(program_text, activity_title)
        IN  \A a, b \in 1..Len(lines) :
                LocationRun(lines, a, b)
                   => /\ \E k \in 1..Len(entries) :
                            /\ entry_src[k] = b
                            /\ entries[k].location = lines[b]
                            /\ entries[k].time = lines[b + 1]
                            /\ \A j \in 1..Len(entries) : entry_src[j] = b => j = k
                      /\ \A m \in a..(b - 1) : m \notin Range(entry_src)

\* two different location lines and a time line: the one row has the second
\* location, and the first is in no row
C22_Witness ==
    /\ pc = "parsed"
    /\ Len(entries) = 1
    /\ LET lines == PreprocessLines(program_text, activity_title)
       IN  /\ LocationRun(lines, 1, 2)
           /\ lines[1] # lines[2]
           /\ entries[1].location = lines[2]
           /\ \A m \in 3..Len(lines) : lines[m] # lines[1]

\* the trimmed non-blank lines of the text, before anything is removed
RawLines == StripNonEmpty(SplitLines(program_text))

\* 1 when the first non-blank line is 'program' in any letter case, else 0
ProgramRemoved ==
    IF RawLines # <<>> /\ lower(RawLines[1]) = <<"p","r","o","g","r","a","m">>
    THEN 1 ELSE 0

\* 1 when a non-empty title is supplied and the line that is first once the
\* 'program' line is gone equals it in any letter case, else 0
TitleRemoved ==
    IF /\ activity_title # {}
       /\ activity_title # {<<>>}
       /\ Len(RawLines) > ProgramRemoved
       /\ \E title \in activity_title :
             lower(RawLines[ProgramRemoved + 1]) = lower(title)
    THEN 1 ELSE 0

\* C23: preprocessing removes at most two lines and only from the front: the
\* first non-blank line when it is 'program' in any letter case, then the line
\* that is now first when a title is supplied and the line equals it in any
\* letter case.  Every other line, also a 'program' line after the title line
\* and a later 'program' or title line, is classified like any other line: the
\* rows are those of the classification loop over the lines that remain.
C23_PreprocessingDropsFrontOnly ==
    pc = "parsed" =>
        LET removed == ProgramRemoved + TitleRemoved
            kept    == SubSeq(RawLines, removed + 1, Len(RawLines))
        IN  /\ removed \in 0..2
            /\ entries = ParseLoop(ParseStart, kept, 1).entries
            /\ \A k \in 1..Len(entries) :
                  /\ entry_src[k] \in 1..Len(kept)
                  /\ entries[k].location = kept[entry_src[k]]
            /\ \A i \in 1..(Len(kept) - 1) :
                  (IsLocationLine(kept[i]) /\ is_time_line(kept[i + 1]))
                     => i \in Range(entry_src)

\* the title line comes first and a 'program' line follows it: only the title
\* line is removed and the 'program' line is the location of a row
C23_Witness ==
    /\ pc = "parsed"
    /\ ProgramRemoved = 0
    /\ TitleRemoved = 1
    /\ Len(RawLines) >= 3
    /\ lower(RawLines[2]) = <<"p","r","o","g","r","a","m">>
    /\ Len(entries) >= 1
    /\ entries[1].location = RawLines[2]

\* the loop body with the time pattern tested before the weekday tokens
TimeFirstStep(st, line) ==
    IF is_time_line(line)
    THEN IF st.location # <<>>
         THEN [st EXCEPT
                 !.rows = Append(@, [days |-> st.days, location |-> st.location,
                                     time |-> line]),
                 !.location = <<>>]
         ELSE st
    ELSE IF is_days_line(line)
    THEN [st EXCEPT !.days = line, !.location = <<>>]
    ELSE [st EXCEPT !.location = line]

RECURSIVE TimeFirstLoop(_, _, _)
TimeFirstLoop(st, lines, i) ==
    IF i > Len(lines) THEN st
    ELSE TimeFirstLoop(TimeFirstStep(st, lines[i]), lines, i + 1)

\* C24: every line is exactly one of time line, days line, location line; a
\* line that matches the time pattern matches no weekday token, so the time
\* pattern has priority whichever predicate is evaluated first: the rows are
\* those of the loop that tests the time pattern first.
C24_TimeFirstSameAsDaysFirst ==
    pc = "parsed" =>
        LET lines == PreprocessLines(program_text, activity_title)
        IN  /\ \A i \in 1..Len(lines) :
                  /\ is_time_line(lines[i]) => ~is_days_line(lines[i])
                  /\ LineKind(lines[i]) \in {"time", "days", "location"}
            /\ entries =
                  TimeFirstLoop([days |-> <<>>, location |-> <<>>, rows |-> <<>>],
                                lines, 1).rows

\* a line with a weekday name and a time in it is a days line; a row follows
C24_Witness ==
    /\ pc = "parsed"
    /\ Len(entries) >= 1
    /\ \E t \in 1..(Len(entries[1].days) - 3) :
          /\ is_days_line(entries[1].days)
          /\ HourMinuteEnds(entries[1].days, t) # {}

\* the weekday names written with diacritics, in lower case: mar\u021Bi,
\* s\u00E2mb\u0103t\u0103, duminic\u0103
DiacriticDayNames ==
    { <<"m","a","r","U+021B","i">>,
      <<"s","U+00E2","m","b","U+0103","t","U+0103">>,
      <<"d","u","m","i","n","i","c","U+0103">> }

HasDiacriticDayName(line) ==
    \E name \in DiacriticDayNames : IsSubstring(name, lower(line))

\* C25 as stated: a line that contains a weekday name written with diacritics,
\* in any letter case, is a days line like its ASCII spelling: is_days_line
\* accepts it, and it is never taken for the location of a row.
C25_DiacriticDayNamesAreDaysLines ==
    pc = "parsed" =>
        LET lines == PreprocessLines(program_text, activity_title)
        IN  /\ \A i \in 1..Len(lines) :
                  HasDiacriticDayName(lines[i]) => is_days_line(lines[i])
            /\ \A k \in 1..Len(entries) : ~HasDiacriticDayName(entries[k].location)

-----------------------------------------------------------------------------
(* Rendering of a record's schedule: lines 514-574 *)

\* dict.get(key): {} for None, {value} otherwise
Get(dict, key) == IF key \in DOMAIN dict THEN {dict[key]} ELSE {}

\* lines 517-538 and 545-566: the "Full Schedule" table of rows
TableBlock(rows) == [kind |-> "table", rows |-> rows, text |-> <<>>]

\* lines 568-572: the "Schedule" block with the text in a <pre>
RawBlock(text) == [kind |-> "raw", rows |-> <<>>, text |-> text]

\* line 541: activity_schedule.get('program') or activity_schedule.get('raw')
schedule_text(sched) ==
    IF Truthy(Get(sched, "program"))
    THEN TheValue(Get(sched, "program"))
    ELSE TheValue(Get(sched, "raw"))

\* mutant: the raw text is shown below the table as well
ScheduleBlocks_AlwaysRaw(sched, title) ==
    IF Truthy(Get(sched, "entries"))
    THEN <<TableBlock(sched["entries"])>>
    ELSE IF Truthy(Get(sched, "program")) \/ Truthy(Get(sched, "raw"))
    THEN LET parsed_entries == parse_schedule_program(schedule_text(sched), title).entries
         IN  IF parsed_entries # <<>>
             THEN <<TableBlock(parsed_entries), RawBlock(schedule_text(sched))>>
             ELSE <<RawBlock(schedule_text(sched))>>
    ELSE <<>>

\* lines 515-572: what the renderer appends to html for one record
ScheduleBlocks(sched, title) ==
    IF Truthy(Get(sched, "entries"))
    THEN <<TableBlock(sched["entries"])>>
    ELSE IF Truthy(Get(sched, "program")) \/ Truthy(Get(sched, "raw"))
    THEN LET parsed_entries == parse_schedule_program(schedule_text(sched), title).entries
         IN  IF parsed_entries # <<>>
             THEN <<TableBlock(parsed_entries)>>
             ELSE <<RawBlock(schedule_text(sched))>>
    ELSE <<>>

\* schedule texts of detail records: empty, a location only, a complete
\* days/location/time group, and a heading followed by a time
RenderTextPool ==
    { <<>>,
      <<"S","p","a">>,
      <<"L","u","n","i","\n","S","p","a","\n","8",":","0","0">>,
      <<"P","r","o","g","r","a","m","\n","8",":","0","0">> }

\* structured entries of detail records: an empty list or one row
RenderEntriesPool ==
    { <<>>,
      <<[days |-> <<"J","o","i">>, location |-> <<"S","a","l","a">>,
         time |-> <<"9",":","0","0">>]>> }

\* the 'schedule' dicts of detail records: each key present or not
RenderSchedules ==
    { e @@ p @@ r :
        e \in {<<>>} \cup { [k \in {"entries"} |-> v] : v \in RenderEntriesPool },
        p \in {<<>>} \cup { [k \in {"program"} |-> v] : v \in RenderTextPool },
        r \in {<<>>} \cup { [k \in {"raw"} |-> v] : v \in RenderTextPool } }

InitRender ==
    /\ InitCore(<<>>, <<>>)
    /\ ParseIdle
    /\ SummaryIdle(<<>>)
    /\ ScrapeIdle
    /\ activity_schedule \in RenderSchedules
    /\ html = <<>>

\* lines 514-574 for the record whose schedule is activity_schedule
RenderSchedule ==
    /\ pc = "ready"
    /\ \E title \in TitleArgs :
          /\ activity_title' = title
          /\ html' = html \o ScheduleBlocks(activity_schedule, title)
    /\ pc' = "rendered"
    /\ UNCHANGED <<activities, activity_names, activity_details_map, first_call,
                   last_call, calls_made, schedule, schedule_names, matched_activity_titles,
                   unmatched_activities, program_text, entries, entry_src, frames,
                   activity_schedule, summaryVars, scrapeVars>>

NextRender == RenderSchedule

SpecRender == InitRender /\ [][NextRender]_vars

\* the record has no structured entries but has program or raw text
HasTextOnly ==
    /\ ~Truthy(Get(activity_schedule, "entries"))
    /\ Truthy(Get(activity_schedule, "program")) \/ Truthy(Get(activity_schedule, "raw"))

\* the rows parse_schedule_program returns for the rendered record
ParsedRows ==
    parse_schedule_program(schedule_text(activity_schedule), activity_title).entries

BlocksOfKind(kind) == SelectSeq(html, LAMBDA b : b.kind = kind)

\* C26: for a record without structured entries but with program or raw text
\* the renderer outputs exactly one block: the table of the parsed rows when
\* parse_schedule_program returns at least one row, the raw text when it
\* returns none; never both and never neither
C26_TableOrRawExactlyOne ==
    (pc = "rendered" /\ HasTextOnly) =>
        /\ Len(BlocksOfKind("table")) + Len(BlocksOfKind("raw")) = 1
        /\ ParsedRows # <<>> =>
              /\ Len(BlocksOfKind("table")) = 1
              /\ BlocksOfKind("table")[1].rows = ParsedRows
        /\ ParsedRows = <<>> =>
              /\ Len(BlocksOfKind("raw")) = 1
              /\ BlocksOfKind("raw")[1].text = schedule_text(activity_schedule)

\* a text-only record whose text parses into a row has been rendered
C26_Witness ==
    /\ pc = "rendered"
    /\ HasTextOnly
    /\ ParsedRows # <<>>
    /\ Len(BlocksOfKind("table")) = 1

\* a text-only record whose text parses into no row has been rendered
C26_WitnessRaw ==
    /\ pc = "rendered"
    /\ HasTextOnly
    /\ ParsedRows = <<>>
    /\ Len(BlocksOfKind("raw")) = 1

-----------------------------------------------------------------------------
(* Matching statistics: lines 759-775 *)

\* schedule[day]['activities'] as the names of the entries stored under day
DayActivities(day) ==
    LET at == SelectSeq([i \in 1..Len(schedule) |-> i],
                        LAMBDA i : schedule_keys[i] = day)
    IN  [k \in 1..Len(at) |-> schedule[at[k]]]

\* line 760: sum(len(schedule[day]['activities']) for day in days if day in schedule)
RECURSIVE SumLen(_)
SumLen(k) ==
    IF k = 0 THEN 0 ELSE SumLen(k - 1) + Len(DayActivities(days[k]))

\* mutant: the matched count visits the entries of every key of schedule
CountMatched_AllKeys(k, names) ==
    Len(SelectSeq(schedule,
            LAMBDA name : find_best_match(name, DefaultThreshold,
                                          names, activity_details_map).rec # None))

\* lines 761-767: matched_count after the days days[1..k]
RECURSIVE CountMatched(_, _)
CountMatched(k, names) ==
    IF k = 0 THEN 0
    ELSE CountMatched(k - 1, names)
         + Len(SelectSeq(DayActivities(days[k]),
                 LAMBDA name : find_best_match(name, DefaultThreshold,
                                               names, activity_details_map).rec # None))

\* line 773: f"{matched_count/total_activities*100:.1f}", in tenths of a
\* percent, rounded to the nearest tenth
RateTenths(matched, total) == (2000 * matched + total) \div (2 * total)

NotAvailable == "N/A"

\* keys of the schedule file: two weekdays and a key that is no weekday
ScheduleKeyPool == { "Monday", "Sunday", "Holiday" }

SummaryNamePool == { <<"a","b">>, <<"S">> }

SummaryTitlePool == { <<"a","b">>, <<"S">> }

SummaryCatalogs ==
    UNION { [1..k -> SummaryTitlePool] : k \in 0..MaxCatalog }

SummarySchedules ==
    UNION { [1..k -> SummaryNamePool \X ScheduleKeyPool] : k \in 0..MaxEntries }

InitSummary ==
    /\ \E catalog \in SummaryCatalogs, sched \in SummarySchedules :
          /\ InitCore(catalog, [i \in 1..Len(sched) |-> sched[i][1]])
          /\ schedule_keys = [i \in 1..Len(sched) |-> sched[i][2]]
    /\ total_activities = 0
    /\ matched_count = 0
    /\ match_rate = "not printed"
    /\ ParseIdle
    /\ RenderIdle
    /\ ScrapeIdle

\* lines 759-775: the statistics and the printed summary; they read the
\* schedule and the index only, which nothing changes once the index is built
PrintSummary ==
    /\ pc = "ready"
    /\ total_activities' = SumLen(Len(days))
    /\ matched_count' = CountMatched(Len(days), activity_names)
    /\ match_rate' = IF total_activities' > 0
                     THEN <<RateTenths(matched_count', total_activities')>>
                     ELSE NotAvailable
    /\ pc' = "summarised"
    /\ UNCHANGED <<activities, activity_names, activity_details_map, first_call,
                   last_call, calls_made, schedule, schedule_names, matched_activity_titles,
                   unmatched_activities, program_text, activity_title, entries,
                   entry_src, frames, schedule_keys, renderVars, scrapeVars>>

NextSummary == LoadActivity \/ CollectNames \/ PrintSummary

SpecSummary == InitSummary /\ [][NextSummary]_vars

\* the entries stored under the seven weekday keys
WeekdayEntries == { i \in 1..Len(schedule) : schedule_keys[i] \in Range(days) }

\* the entries under weekday keys whose name resolves to a record
ResolvingEntries ==
    { i \in WeekdayEntries :
        find_best_match(schedule[i], DefaultThreshold, activity_names,
                        activity_details_map).rec # None }

\* the state part of C27: in the printed summary
SummaryCountsOk ==
    pc = "summarised" =>
        /\ total_activities = Cardinality(WeekdayEntries)
        /\ matched_count = Cardinality(ResolvingEntries)
        /\ 0 <= matched_count
        /\ matched_count <= total_activities
        /\ (match_rate # NotAvailable) <=> (total_activities > 0)

\* the step part of C27: the set of names built for the unmatched list
\* holds the name of every entry the summary counts
NamesCoverCounted ==
    (pc = "ready" /\ pc' = "match") =>
        \A i \in WeekdayEntries : schedule[i] \in schedule_names'

\* C27: in the reconciliation summary the matched count is the number of
\* schedule entries (repeats counted) under the seven weekday keys whose name
\* resolves to a record, so 0 <= matched <= total; the match rate is computed
\* only when total > 0; every entry counted in total has its name in the set
\* of names used to compute the unmatched list
C27_SummaryCounts == [](SummaryCountsOk) /\ [][NamesCoverCounted]_vars

\* a summary over a repeated entry that resolves, an entry under a key that
\* is no weekday, and a rate that was computed
C27_Witness ==
    /\ pc = "summarised"
    /\ total_activities = 1
    /\ matched_count = 1
    /\ Len(schedule) = 2
    /\ schedule[1] = schedule[2]
    /\ match_rate = <<1000>>

\* a summary with a matched count below the total
C27_WitnessPartial ==
    /\ pc = "summarised"
    /\ total_activities = 2
    /\ matched_count = 1
    /\ match_rate = <<500>>

\* a summary without any counted entry prints no rate
C27_WitnessNoRate ==
    /\ pc = "summarised"
    /\ total_activities = 0
    /\ Len(schedule) > 0
    /\ match_rate = NotAvailable

-----------------------------------------------------------------------------
(* Shape of the results of find_best_match: lines 29-67 *)

\* the records the mapping holds for the names of the index sequence
IndexedRecords ==
    { MapGet(activity_details_map, activity_names[i]) : i \in 1..Len(activity_names) }

\* C28: every result of find_best_match with a threshold in 1..100 has a
\* score in 0..100, has no record exactly when the score is 0, and a returned
\* record has a score at or above the threshold and is the mapping's entry
\* for a name of the index sequence
C28_ResultShape ==
    (calls_made # "none" /\ last_call.t \in 1..100) =>
        /\ ScoreGeq(last_call.score, Score(0))
        /\ ScoreGeq(Score(100), last_call.score)
        /\ (last_call.rec = None) <=> (last_call.score = Score(0))
        /\ last_call.rec # None =>
              /\ ScoreGeq(last_call.score, Score(last_call.t))
              /\ last_call.rec \in IndexedRecords

\* a containment-stage result strictly between the threshold and 100
C28_Witness ==
    /\ calls_made # "none"
    /\ last_call.t \in 1..100
    /\ last_call.stage = "containment"
    /\ last_call.rec # None
    /\ last_call.score # Score(100)
    /\ last_call.score # Score(last_call.t)

\* a call that finds nothing although the index is not empty
C28_WitnessNone ==
    /\ calls_made # "none"
    /\ last_call.rec = None
    /\ last_call.score = Score(0)
    /\ activity_names # <<>>

-----------------------------------------------------------------------------
(* The activities scraper and the details scraper *)

MaxPage == 2

MaxFile == 2

\* str.replace(old, ''): every occurrence of old is removed, left to right
RECURSIVE RemoveAll(_, _)
RemoveAll(text, old) ==
    IF old = <<>> \/ Len(text) < Len(old) THEN text
    ELSE IF SubSeq(text, 1, Len(old)) = old
         THEN RemoveAll(SubSeq(text, Len(old) + 1, Len(text)), old)
         ELSE <<Head(text)>> \o RemoveAll(Tail(text), old)

THE_PALM == <<"T","H","E"," ","P","A","L","M">>

GALAXY == <<"G","A","L","A","X","Y">>

ELYSIUM == <<"E","L","Y","S","I","U","M">>

\* scrape_activities.py lines 42-65: tier and location of a container
TierAndLocation(remaining_text) ==
    IF remaining_text = <<>> THEN [tier |-> <<>>, location |-> <<>>]
    ELSE IF IsSubstring(THE_PALM, remaining_text)
         THEN [tier |-> THE_PALM, location |-> strip(RemoveAll(remaining_text, THE_PALM))]
    ELSE IF IsSubstring(GALAXY, remaining_text)
         THEN [tier |-> GALAXY, location |-> strip(RemoveAll(remaining_text, GALAXY))]
    ELSE IF IsSubstring(ELYSIUM, remaining_text)
         THEN [tier |-> ELYSIUM, location |-> strip(RemoveAll(remaining_text, ELYSIUM))]
    ELSE [tier |-> <<>>, location |-> remaining_text]

\* scrape_activities.py lines 67-73: the record of a container with a heading
ActivityRecord(container) ==
    LET activity_name == TheValue(container.h3)
        tl            == TierAndLocation(strip(RemoveAll(container.all_text, activity_name)))
        activity      == [k \in {"name", "location"} |->
                             IF k = "name" THEN activity_name ELSE tl.location]
    IN  IF tl.tier # <<>>
        THEN activity @@ [k \in {"tier"} |-> tl.tier]
        ELSE activity

\* scrape_activities.py lines 32-77: containers without a heading are skipped
RECURSIVE scrape_all_activities(_)
scrape_all_activities(containers) ==
    IF containers = <<>> THEN <<>>
    ELSE IF Head(containers).h3 = {}
         THEN scrape_all_activities(Tail(containers))
         ELSE <<ActivityRecord(Head(containers))>> \o scrape_all_activities(Tail(containers))

\* containers of the activities page: without a heading, with a name only,
\* with a tier and a location, with a location only
ContainerPool ==
    { [h3 |-> {}, all_text |-> <<"S","p","a">>],
      [h3 |-> {<<"Y","o","g","a">>}, all_text |-> <<"Y","o","g","a">>],
      [h3 |-> {<<"Y","o","g","a">>},
       all_text |-> <<"Y","o","g","a","G","A","L","A","X","Y"," ","S","p","a">>],
      [h3 |-> {<<"A","q","u","a">>}, all_text |-> <<"A","q","u","a","S","p","a">>] }

Pages == UNION { [1..k -> ContainerPool] : k \in 0..MaxPage }

\* records of an activities file written by hand: a name and a link
LinkedRecordPool ==
    { [name |-> <<"Y","o","g","a">>, link |-> "https://therme.ro/yoga"],
      [name |-> <<"A","q","u","a">>, link |-> "https://therme.ro/aqua"] }

LinkedFiles == UNION { [1..k -> LinkedRecordPool] : k \in 0..MaxFile }

\* the optional start and end arguments: absent (0) or 1-based positions
RangeArgs == (0..MaxFile) \X (0..MaxFile)

\* scrape_activity_details.py lines 157-167: activities[start_idx:end_idx]
SelectRange(acts, start, end) ==
    IF start # 0 /\ end # 0
    THEN SubSeq(acts, start, IF end < Len(acts) THEN end ELSE Len(acts))
    ELSE acts

\* scrape_activity_details.py lines 128-136: the dict a successful fetch returns
Details(url, name) == [title |-> name, url |-> url]

\* the activities page is about to be scraped, or an activities file exists
InitScrape ==
    /\ activities = <<>>
    /\ activity_names = <<>>
    /\ activity_details_map = EmptyMap
    /\ first_call = NoCall
    /\ last_call = NoCall
    /\ calls_made = "none"
    /\ schedule = <<>>
    /\ schedule_names = {}
    /\ matched_activity_titles = {}
    /\ unmatched_activities = <<>>
    /\ frames = [th \in Threads |-> IdleFrame]
    /\ ParseIdle
    /\ RenderIdle
    /\ SummaryIdle(<<>>)
    /\ \/ /\ pc = "scrape"
          /\ page \in Pages
          /\ activities_json = <<>>
       \/ /\ pc = "file"
          /\ page = <<>>
          /\ activities_json \in LinkedFiles
    /\ activities_in = <<>>
    /\ loop_idx = 0
    /\ results = <<>>
    /\ output = <<>>
    /\ fetch_log = <<>>

generatorVars ==
    <<activities, activity_names, activity_details_map, first_call, last_call,
      calls_made, schedule, schedule_names, matched_activity_titles,
      unmatched_activities, program_text, activity_title, entries, entry_src,
      frames, renderVars, summaryVars>>

\* scrape_activities.py lines 79-91: main scrapes the page and writes the file
ScrapeActivities ==
    /\ pc = "scrape"
    /\ activities_json' = scrape_all_activities(page)
    /\ pc' = "file"
    /\ UNCHANGED <<generatorVars, page, activities_in, loop_idx, results, output,
                   fetch_log>>

\* scrape_activity_details.py lines 151-175: the file is read and the range
\* arguments applied
LoadActivities ==
    /\ pc = "file"
    /\ \E range \in RangeArgs :
          activities_in' = SelectRange(activities_json, range[1], range[2])
    /\ results' = <<>>
    /\ loop_idx' = 0
    /\ pc' = "loop"
    /\ UNCHANGED <<generatorVars, page, activities_json, output, fetch_log>>

\* scrape_activity_details.py lines 177-179: the loop takes the next activity
\* and reads its fields; a missing field raises KeyError, which nothing catches
NextActivity ==
    /\ pc = "loop"
    /\ loop_idx < Len(activities_in)
    /\ loop_idx' = loop_idx + 1
    /\ pc' = IF {"name", "link"} \subseteq DOMAIN activities_in[loop_idx']
             THEN "fetch"
             ELSE "crashed"
    /\ UNCHANGED <<generatorVars, page, activities_json, activities_in, results,
                   output, fetch_log>>

LogEntry(i, event) == [i |-> i, event |-> event]

\* mutant: a failed fetch ends the loop
Fetch_FailureEndsLoop ==
    /\ pc = "fetch"
    /\ LET activity == activities_in[loop_idx]
       IN  \/ /\ results' = Append(results, Details(activity.link, activity.name))
              /\ fetch_log' = Append(fetch_log, LogEntry(loop_idx, "fetched"))
              /\ loop_idx' = loop_idx
           \/ /\ results' = results
              /\ fetch_log' = Append(fetch_log, LogEntry(loop_idx, "failed"))
              /\ loop_idx' = Len(activities_in)
    /\ pc' = "sleep"
    /\ UNCHANGED <<generatorVars, page, activities_json, activities_in, output>>

\* scrape_activity_details.py lines 184-197 with lines 10-140: the fetch
\* returns the details, which are appended, or fails inside
\* fetch_activity_details, which returns None
Fetch ==
    /\ pc = "fetch"
    /\ LET activity == activities_in[loop_idx]
       IN  \/ /\ results' = Append(results, Details(activity.link, activity.name))
              /\ fetch_log' = Append(fetch_log, LogEntry(loop_idx, "fetched"))
           \/ /\ results' = results
              /\ fetch_log' = Append(fetch_log, LogEntry(loop_idx, "failed"))
    /\ pc' = "sleep"
    /\ UNCHANGED <<generatorVars, page, activities_json, activities_in, loop_idx,
                   output>>

\* scrape_activity_details.py line 200: time.sleep(0.5) returns
Sleep ==
    /\ pc = "sleep"
    /\ pc' = "loop"
    /\ UNCHANGED <<generatorVars, scrapeVars>>

\* scrape_activity_details.py lines 202-217: Ctrl+C while the loop waits for
\* the network or sleeps; KeyboardInterrupt passes the except Exception of
\* fetch_activity_details and reaches the handler of main
Interrupt ==
    /\ pc \in {"fetch", "sleep"}
    /\ fetch_log' = Append(fetch_log, LogEntry(loop_idx, "interrupt"))
    /\ output' = <<[activities |-> results, total |-> Len(results), interrupted |-> TRUE]>>
    /\ pc' = "saved"
    /\ UNCHANGED <<generatorVars, page, activities_json, activities_in, loop_idx,
                   results>>

\* scrape_activity_details.py lines 219-228: the loop ended
SaveResults ==
    /\ pc = "loop"
    /\ loop_idx = Len(activities_in)
    /\ output' = <<[activities |-> results, total |-> Len(results), interrupted |-> FALSE]>>
    /\ pc' = "saved"
    /\ UNCHANGED <<generatorVars, page, activities_json, activities_in, loop_idx,
                   results, fetch_log>>

NextScrape ==
    \/ ScrapeActivities
    \/ LoadActivities
    \/ NextActivity
    \/ Fetch
    \/ Sleep
    \/ Interrupt
    \/ SaveResults

SpecScrape == InitScrape /\ [][NextScrape]_vars

\* the logged events of one kind
Events(event) == SelectSeq(fetch_log, LAMBDA e : e.event = event)

\* the fetches made, in the order they were made
Attempts == SelectSeq(fetch_log, LAMBDA e : e.event # "interrupt")

\* C29: in the saved output of the details scraper 'activities' holds
\* exactly the successfully fetched records in input order, 'total' is their
\* number, a failed fetch skips only that activity and the loop goes on to
\* the next one, and 'interrupted' is true exactly when the loop was
\* interrupted
C29_SavedOutputIsFetchedPrefix ==
    pc = "saved" =>
        LET out     == output[1]
            fetched == Events("fetched")
        IN  /\ out.activities =
                  [k \in 1..Len(fetched) |->
                      Details(activities_in[fetched[k].i].link,
                              activities_in[fetched[k].i].name)]
            /\ \A k \in 1..Len(fetched) : k > 1 => fetched[k - 1].i < fetched[k].i
            /\ out.total = Len(fetched)
            /\ \A k \in 1..Len(Attempts) : Attempts[k].i = k
            /\ out.interrupted <=> Events("interrupt") # <<>>
            /\ ~out.interrupted => Len(Attempts) = Len(activities_in)

\* an uninterrupted run saved a record fetched after a failed fetch
C29_Witness ==
    /\ pc = "saved"
    /\ ~output[1].interrupted
    /\ Len(Events("failed")) > 0
    /\ output[1].total = 1
    /\ Len(Attempts) = 2
    /\ Attempts[1].event = "failed"

\* an interrupted run saved what was fetched before the interrupt
C29_WitnessInterrupted ==
    /\ pc = "saved"
    /\ output[1].interrupted
    /\ output[1].total = 1
    /\ Len(activities_in) = 2

\* C30: every record scrape_all_activities produces carries the fields the
\* details scraper reads ('name' and 'link'), so the loop of the details
\* scraper processes the written activities list without a missing-field
\* failure
C30_ScrapedRecordsCarryNameAndLink ==
    /\ \A i \in 1..Len(activities_json) :
          {"name", "link"} \subseteq DOMAIN activities_json[i]
    /\ pc # "crashed"

\* the loop of the details scraper stopped with KeyError on a scraped record
C30_MissingLinkCrash ==
    /\ pc = "crashed"
    /\ page # <<>>
    /\ "link" \notin DOMAIN activities_in[loop_idx]
    /\ output = <<>>

====
